---- MODULE Spec2Model ----
(***************************************************************************)
(* NasaPowerClient: the response normalizer (processApiResponse) and the  *)
(* query facade built on it (getWeatherData and the operations that call  *)
(* it), as state machines.                                                 *)
(*                                                                         *)
(* Strings that the code inspects character by character (the keys of a   *)
(* parameter object, string values handed to Number) are tuples of        *)
(* one-character strings; parameter codes, field names and region names,  *)
(* which the code only compares for equality, are TLA+ strings.           *)
(***************************************************************************)
EXTENDS Integers, Sequences, FiniteSets, TLC

VARIABLES
    pc,              \* where the current invocation stands
    op,              \* the public operation invoked
    region,          \* its region argument ("" for getWeatherData)
    coordinates,     \* SPANISH_REGION_COORDINATES[region], or the caller's coordinates
    request,         \* the query handed to the transport
    transportCalls,  \* calls of axiosInstance.get made by the current invocation
    transport,       \* how the transport call ended: "none", "resolved", "rejected"
    transportError,  \* the error the transport raised
    response,        \* response.data, the raw body
    weatherData,     \* the DailyWeatherData[] returned by processApiResponse
    outcome,         \* how the invocation ended: "none", "resolved", "rejected"
    result,          \* the value the invocation resolved with
    error            \* the error the invocation was rejected with

vars == <<pc, op, region, coordinates, request, transportCalls, transport,
          transportError, response, weatherData, outcome, result, error>>

-----------------------------------------------------------------------------
(* Bounds of the model.                                                    *)

\* A raw response built for the normalizer holds at most MaxSize parameters
\* and date entries, counted together.
MaxSize == 4
\* A response the transport hands to the facade covers at most MaxDays days.
MaxDays == 2

-----------------------------------------------------------------------------
(* JavaScript strings and numbers.                                         *)

Digits == <<"0", "1", "2", "3", "4", "5", "6", "7", "8", "9">>

IsDigit(c) == \E i \in 1..Len(Digits) : Digits[i] = c

DigitValue(c) == (CHOOSE i \in 1..Len(Digits) : Digits[i] = c) - 1

\* The characters that occur in the model's strings, in code-unit order.
CharOrder == <<"-", "0", "1", "2", "3", "4", "5", "6", "7", "8", "9",
               "a", "e", "g", "i", "l", "m", "n", "o", "s", "t", "u">>

CharCode(c) == CHOOSE i \in 1..Len(CharOrder) : CharOrder[i] = c

\* a < b as JavaScript compares strings: by code unit, a proper prefix first.
RECURSIVE StrLess(_, _)
StrLess(a, b) ==
    IF b = <<>> THEN FALSE
    ELSE IF a = <<>> THEN TRUE
    ELSE IF a[1] = b[1] THEN StrLess(Tail(a), Tail(b))
    ELSE CharCode(a[1]) < CharCode(b[1])

\* /^\d+$/.test(s)
AllDigits(s) == Len(s) >= 1 /\ \A i \in 1..Len(s) : IsDigit(s[i])

\* The number a string of decimal digits denotes.
RECURSIVE NumericValue(_)
NumericValue(s) ==
    IF s = <<>> THEN 0
    ELSE 10 * NumericValue(SubSeq(s, 1, Len(s) - 1)) + DigitValue(s[Len(s)])

\* Number(s) for a string s: the empty string is 0, an optional minus sign
\* and decimal digits are the number they denote.
StringToNumber(s) ==
    IF s = <<>> THEN 0
    ELSE IF s[1] = "-" THEN 0 - NumericValue(Tail(s))
    ELSE NumericValue(s)

\* A JSON value of a parameter object.
Num(n) == [tag |-> "number", n |-> n, s |-> <<>>]
Str(s) == [tag |-> "string", n |-> 0, s |-> s]

\* A property key is an array index when it is the canonical decimal form of
\* an integer below 2^32 - 1: no leading zero.  Every canonical key of at most
\* nine digits is one; the model's keys are no longer than that.
IsArrayIndex(key) ==
    /\ AllDigits(key)
    /\ Len(key) <= 9
    /\ (Len(key) = 1 \/ key[1] # "0")

\* The keys of the pairs <<number, key>> in ascending order of the numbers.
RECURSIVE SortByNumber(_)
SortByNumber(P) ==
    IF P = {} THEN <<>>
    ELSE LET m == CHOOSE x \in P : \A y \in P : x[1] <= y[1]
         IN  <<m[2]>> \o SortByNumber(P \ {m})

\* The array-index keys S in ascending numeric order.
SortAscending(S) == SortByNumber({<<NumericValue(key), key>> : key \in S})

\* Object.keys(o) of an object whose properties were created in the order of
\* `entries`: the array-index keys in ascending numeric order, then the other
\* keys in creation order.
PropertyNames(entries) == [i \in 1..Len(entries) |-> entries[i].k]

ObjectKeys(entries) ==
    LET names == PropertyNames(entries)
        IsIndex(k) == IsArrayIndex(k)
        IsName(k) == ~IsArrayIndex(k)
    IN  SortAscending({names[i] : i \in {j \in 1..Len(names) : IsIndex(names[j])}})
            \o SelectSeq(names, IsName)

\* o[key] !== undefined, and o[key], for an object of own properties `entries`.
HasProperty(entries, key) == \E i \in 1..Len(entries) : entries[i].k = key

GetProperty(entries, key) ==
    entries[CHOOSE i \in 1..Len(entries) : entries[i].k = key].v

-----------------------------------------------------------------------------
(* processApiResponse                                                      *)

FILL == -999

\* The keys of the value objects that are not dates.
units == <<"u", "n", "i", "t", "s">>
longname == <<"l", "o", "n", "g", "n", "a", "m", "e">>

\* The if-statements of the loop body, in source order: the parameter code
\* read and the field of the record written.
FieldMap == <<
    [code |-> "T2M",                field |-> "temperature"],
    [code |-> "T2M_MAX",            field |-> "maxTemperature"],
    [code |-> "T2M_MIN",            field |-> "minTemperature"],
    [code |-> "PRECTOTCORR",        field |-> "precipitation"],
    [code |-> "RH2M",               field |-> "humidity"],
    [code |-> "WS10M",              field |-> "windSpeed"],
    [code |-> "WD10M",              field |-> "windDirection"],
    [code |-> "PS",                 field |-> "pressure"],
    [code |-> "CLOUD_AMT",          field |-> "cloudCover"],
    [code |-> "ALLSKY_SFC_SW_DWN",  field |-> "solarRadiation"],
    [code |-> "TSOIL1",             field |-> "soilTemperature"],
    [code |-> "TSOIL2",             field |-> "deepSoilTemperature"],
    [code |-> "GWETROOT",           field |-> "rootZoneMoisture"],
    [code |-> "GWETTOP",            field |-> "topSoilMoisture"],
    [code |-> "EVLAND",             field |-> "evapotranspiration"],
    [code |-> "ALLSKY_SFC_PAR_TOT", field |-> "parRadiation"],
    [code |-> "T2MDEW",             field |-> "dewPoint"],
    [code |-> "T2MWET",             field |-> "wetBulbTemperature"],
    [code |-> "T_SOIL",             field |-> "soilTemperature"],
    [code |-> "SOIL_M",             field |-> "soilMoisture"],
    [code |-> "GDD10",              field |-> "growingDegreeDays"],
    [code |-> "RH2M_HR",            field |-> "maxHumidity"] >>

\* A raw body is [shape, parameter]: shape "ok" when response, its properties
\* and properties.parameter are all there, and parameter the properties of
\* properties.parameter in creation order, each [k: the code, isObject, entries:
\* the properties of the value object in creation order, each [k, v]].
StructureMissing(resp) == resp.shape # "ok"

\* const processValue = (value: any): number => Number(value)
processValueFillAsZero(value) ==
    IF value.tag = "number"
    THEN (IF value.n = FILL THEN 0 ELSE value.n)
    ELSE StringToNumber(value.s)
processValue(value) ==
    IF value.tag = "number" THEN value.n ELSE StringToNumber(value.s)

\* date.length === 8 && /^\d+$/.test(date)
IsValidDateDigitsOnly(date) == AllDigits(date)
IsValidDate(date) == Len(date) = 8 /\ AllDigits(date)

\* parameters[code] && parameters[code][date] !== undefined
ParameterDefined(parameters, code, date) ==
    /\ HasProperty(parameters, code)
    /\ LET p == parameters[CHOOSE i \in 1..Len(parameters) : parameters[i].k = code]
       IN  p.isObject /\ HasProperty(p.entries, date)

ParameterValue(parameters, code, date) ==
    GetProperty(parameters[CHOOSE i \in 1..Len(parameters) : parameters[i].k = code].entries,
                date)

\* The dates the loop runs over: the keys of the first parameter's object.
DateKeys(parameters) ==
    LET NotMeta(key) == key # units /\ key # longname
    IN  SelectSeq(ObjectKeys(parameters[1].entries), NotMeta)

\* dailyData.field = value, on the function from the fields set to their values.
AssignIfAbsent(dailyData, field, value) ==
    IF field \in DOMAIN dailyData THEN dailyData
    ELSE [f \in DOMAIN dailyData \cup {field} |->
             IF f = field THEN value ELSE dailyData[f]]
Assign(dailyData, field, value) ==
    [f \in DOMAIN dailyData \cup {field} |-> IF f = field THEN value ELSE dailyData[f]]

\* The codes whose parameter object has a value at `date`.
DefinedCodes(parameters, date) ==
    {parameters[i].k :
        i \in {j \in 1..Len(parameters) :
                  ParameterDefined(parameters, parameters[j].k, date)}}

\* The if-statements whose condition holds when the codes `defined` have a
\* value at the date, in source order.
TakenOf(defined) ==
    LET Defined(m) == m.code \in defined
    IN  SelectSeq(FieldMap, Defined)

Taken(parameters, date) == TakenOf(DefinedCodes(parameters, date))

\* dailyData after the assignments of the if-statements `taken`, as the
\* function from the fields set so far to their values.
RECURSIVE ApplyMappings(_, _, _)
ApplyMappings(parameters, date, taken) ==
    IF taken = << >> THEN << >>
    ELSE LET n == Len(taken)
         IN  Assign(ApplyMappings(parameters, date, SubSeq(taken, 1, n - 1)),
                    taken[n].field,
                    processValue(ParameterValue(parameters, taken[n].code, date)))

DailyData(parameters, date) ==
    [date |-> date, fields |-> ApplyMappings(parameters, date, Taken(parameters, date))]

\* Object.keys(dailyData).length > 1
HasValidData(dailyData) == DOMAIN dailyData.fields # {}

\* The loop over validDates: the records that are pushed to results.
Results(parameters, validDates) ==
    SelectSeq([i \in 1..Len(validDates) |-> DailyData(parameters, validDates[i])],
              HasValidData)

processApiResponse(resp) ==
    IF StructureMissing(resp) THEN << >>
    ELSE IF Len(resp.parameter) = 0 THEN << >>
    ELSE IF ~resp.parameter[1].isObject THEN << >>
    ELSE Results(resp.parameter, SelectSeq(DateKeys(resp.parameter), IsValidDate))

-----------------------------------------------------------------------------
(* Numbers derived from a record.  The measurements of the model are       *)
(* integers; a derived value is the exact fraction num/den, den > 0.       *)

Fraction(num, den) == [tag |-> "number", num |-> num, den |-> den]
Undetermined == [tag |-> "no definido", num |-> 0, den |-> 1]

IsNumber(v) == v.tag = "number"

Max(a, b) == IF a >= b THEN a ELSE b
Min(a, b) == IF a <= b THEN a ELSE b
Abs(a) == IF a >= 0 THEN a ELSE 0 - a

\* Math.round(num / den) for den > 0: the nearest integer, a half rounded up.
Round(num, den) == (2 * num + den) \div (2 * den)

\* data.f !== undefined, data.f, and (data.f || 0)
Has(data, f) == f \in DOMAIN data.fields
Get(data, f) == data.fields[f]
OrZero(data, f) == IF Has(data, f) THEN Get(data, f) ELSE 0
\* data.f === n
Is(data, f, n) == Has(data, f) /\ Get(data, f) = n

-----------------------------------------------------------------------------
(* calculateAgroClimateIndices: the indices of one record, as the function *)
(* from the fields that are set to their values.                           *)

\* A droughtIndex without the floor at 0.
droughtIndexUnfloored(data) ==
    IF /\ Has(data, "precipitation") /\ Has(data, "evapotranspiration")
       /\ Get(data, "precipitation") # FILL /\ Get(data, "evapotranspiration") # FILL
       /\ Get(data, "evapotranspiration") # 0
    THEN LET p == Get(data, "precipitation")
             e == Get(data, "evapotranspiration")
         IN  Fraction(IF e > 0 THEN e - p ELSE p - e, Abs(e))
    ELSE Undetermined

droughtIndex(data) ==
    IF /\ Has(data, "precipitation") /\ Has(data, "evapotranspiration")
       /\ Get(data, "precipitation") # FILL /\ Get(data, "evapotranspiration") # FILL
       /\ Get(data, "evapotranspiration") # 0
    THEN LET p == Get(data, "precipitation")
             e == Get(data, "evapotranspiration")
             \* 1 - p / e, with a positive denominator
             num == IF e > 0 THEN e - p ELSE p - e
             den == Abs(e)
         IN  IF num > 0 THEN Fraction(num, den) ELSE Fraction(0, 1)
    ELSE Undetermined

heatStressIndex(data) ==
    IF /\ Has(data, "maxTemperature") /\ Has(data, "humidity")
       /\ Get(data, "maxTemperature") # FILL /\ Get(data, "humidity") # FILL
       /\ Get(data, "maxTemperature") # 0 /\ Get(data, "humidity") # 0
    THEN \* (maxTemperature + humidity * 0.1 - 25) / 2, in twentieths
         LET n == 10 * Get(data, "maxTemperature") + Get(data, "humidity") - 250
         IN  Fraction(Max(0, Min(200, n)), 20)
    ELSE Undetermined

\* A freezeRisk that is (3 - minTemperature) / 3 below 0 too.
freezeRiskLinear(data) ==
    IF Has(data, "minTemperature") /\ Get(data, "minTemperature") # FILL
    THEN LET t == Get(data, "minTemperature")
         IN  IF t < 3 THEN Fraction(3 - t, 3) ELSE Fraction(0, 1)
    ELSE Undetermined

freezeRisk(data) ==
    IF Has(data, "minTemperature") /\ Get(data, "minTemperature") # FILL
    THEN LET t == Get(data, "minTemperature")
         IN  IF t <= 0 /\ t # 0 THEN Fraction(1, 1)
             ELSE IF t < 3 THEN Fraction(Max(0, 3 - t), 3)
             ELSE Fraction(0, 1)
    ELSE Undetermined

\* Set only when humidity and temperature are defined.
diseaseRisk(data) ==
    LET h == Get(data, "humidity")
        t == Get(data, "temperature")
    IN  IF h > 80 /\ t > 15 /\ t < 30
        THEN \* (h - 80) / 20 * ((30 - |t - 22.5|) / 7.5), in three-hundredths
             Fraction(Min(300, (h - 80) * (60 - Abs(2 * t - 45))), 300)
        ELSE Fraction(0, 1)

\* Set only when evapotranspiration, precipitation and soilMoisture are defined.
irrigationNeed(data) ==
    LET waterDeficit == Max(0, Get(data, "evapotranspiration") - Get(data, "precipitation"))
        soilMoistureDeficit == Max(0, 50 - Get(data, "soilMoisture"))
    IN  Fraction(2 * waterDeficit + soilMoistureDeficit, 2)

\* Set only when soilTemperature and soilMoisture are defined.
optimalPlantingConditions(data) ==
    /\ Get(data, "soilTemperature") >= 10
    /\ Get(data, "soilMoisture") >= 30
    /\ Get(data, "soilMoisture") <= 70

\* Harvest conditions that look at the precipitation only.
harvestConditionsRainOnly(data) ==
    IF Get(data, "precipitation") < 1 THEN "Buenas"
    ELSE IF Get(data, "precipitation") < 5 THEN "Regulares"
    ELSE "Malas"

\* Set only when precipitation and humidity are defined.
harvestConditions(data) ==
    IF Get(data, "precipitation") < 1 /\ Get(data, "humidity") < 70 THEN "Buenas"
    ELSE IF Get(data, "precipitation") < 5 /\ Get(data, "humidity") < 85 THEN "Regulares"
    ELSE "Malas"

\* The fields of the returned object that are set.
IndexFields(data) ==
    {"droughtIndex", "heatStressIndex", "freezeRisk"}
    \cup (IF Has(data, "humidity") /\ Has(data, "temperature")
          THEN {"diseaseRisk"} ELSE {})
    \cup (IF /\ Has(data, "evapotranspiration") /\ Has(data, "precipitation")
             /\ Has(data, "soilMoisture")
          THEN {"irrigationNeed"} ELSE {})
    \cup (IF Has(data, "soilTemperature") /\ Has(data, "soilMoisture")
          THEN {"optimalPlantingConditions"} ELSE {})
    \cup (IF Has(data, "precipitation") /\ Has(data, "humidity")
          THEN {"harvestConditions"} ELSE {})

\* A boolean field holds [tag |-> "boolean", b], a category [tag |-> "category", s].
calculateAgroClimateIndices(data) ==
    [f \in IndexFields(data) |->
        CASE f = "droughtIndex" -> droughtIndex(data)
          [] f = "heatStressIndex" -> heatStressIndex(data)
          [] f = "freezeRisk" -> freezeRisk(data)
          [] f = "diseaseRisk" -> diseaseRisk(data)
          [] f = "irrigationNeed" -> irrigationNeed(data)
          [] f = "optimalPlantingConditions" ->
                [tag |-> "boolean", b |-> optimalPlantingConditions(data)]
          [] f = "harvestConditions" ->
                [tag |-> "category", s |-> harvestConditions(data)]]

-----------------------------------------------------------------------------
(* generateRecommendations                                                 *)

\* indices.f is a number greater than n / d
NumberAbove(indices, f, n, d) ==
    /\ f \in DOMAIN indices
    /\ IsNumber(indices[f])
    /\ indices[f].num * d > n * indices[f].den

IsUndetermined(indices, f) ==
    f \in DOMAIN indices /\ indices[f].tag = "no definido"

\* An irrigation recommendation from a need of 3 on.
irrigationRecommendationFromThree(indices) ==
    IF "irrigationNeed" \in DOMAIN indices /\ IsNumber(indices["irrigationNeed"])
       /\ indices["irrigationNeed"].num >= 3 * indices["irrigationNeed"].den
    THEN [recommended |-> TRUE,
          amount |-> Round(indices["irrigationNeed"].num, indices["irrigationNeed"].den),
          message |-> "Se recomienda regar con aproximadamente ${amount} mm de agua."]
    ELSE IF IsUndetermined(indices, "irrigationNeed")
    THEN [recommended |-> FALSE, amount |-> 0,
          message |-> "No hay datos suficientes para determinar la necesidad de riego."]
    ELSE [recommended |-> FALSE, amount |-> 0, message |-> "No es necesario regar hoy."]

irrigationRecommendation(indices) ==
    IF NumberAbove(indices, "irrigationNeed", 3, 1)
    THEN [recommended |-> TRUE,
          amount |-> Round(indices["irrigationNeed"].num, indices["irrigationNeed"].den),
          message |-> "Se recomienda regar con aproximadamente ${amount} mm de agua."]
    ELSE IF IsUndetermined(indices, "irrigationNeed")
    THEN [recommended |-> FALSE, amount |-> 0,
          message |-> "No hay datos suficientes para determinar la necesidad de riego."]
    ELSE [recommended |-> FALSE, amount |-> 0, message |-> "No es necesario regar hoy."]

\* A pestControl that is recommended for a high risk only.
pestControlRecommendationHighOnly(indices) ==
    IF NumberAbove(indices, "diseaseRisk", 7, 10)
    THEN [recommended |-> TRUE, riskLevel |-> "alto",
          message |-> "ALERTA: Alto riesgo de enfermedades debido a condiciones de humedad y temperatura. Considere aplicar medidas preventivas."]
    ELSE IF NumberAbove(indices, "diseaseRisk", 4, 10)
    THEN [recommended |-> FALSE, riskLevel |-> "medio",
          message |-> "Riesgo moderado de enfermedades. Monitoree sus cultivos con atención."]
    ELSE IF IsUndetermined(indices, "diseaseRisk")
    THEN [recommended |-> FALSE, riskLevel |-> "no definido",
          message |-> "No hay datos suficientes para evaluar el riesgo de enfermedades."]
    ELSE [recommended |-> FALSE, riskLevel |-> "bajo",
          message |-> "Riesgo bajo de plagas y enfermedades hoy."]

pestControlRecommendation(indices) ==
    IF NumberAbove(indices, "diseaseRisk", 7, 10)
    THEN [recommended |-> TRUE, riskLevel |-> "alto",
          message |-> "ALERTA: Alto riesgo de enfermedades debido a condiciones de humedad y temperatura. Considere aplicar medidas preventivas."]
    ELSE IF NumberAbove(indices, "diseaseRisk", 4, 10)
    THEN [recommended |-> TRUE, riskLevel |-> "medio",
          message |-> "Riesgo moderado de enfermedades. Monitoree sus cultivos con atención."]
    ELSE IF IsUndetermined(indices, "diseaseRisk")
    THEN [recommended |-> FALSE, riskLevel |-> "no definido",
          message |-> "No hay datos suficientes para evaluar el riesgo de enfermedades."]
    ELSE [recommended |-> FALSE, riskLevel |-> "bajo",
          message |-> "Riesgo bajo de plagas y enfermedades hoy."]

fertilizationRecommendation(data) ==
    IF OrZero(data, "precipitation") < 5 /\ OrZero(data, "soilMoisture") > 20
    THEN [recommended |-> TRUE,
          message |-> "Condiciones adecuadas para la aplicación de fertilizantes."]
    ELSE [recommended |-> FALSE, message |-> "No es recomendable fertilizar hoy."]

fieldOperationsRecommendation(data) ==
    IF OrZero(data, "precipitation") > 5 \/ OrZero(data, "soilMoisture") > 80
    THEN [canWork |-> FALSE,
          message |-> "Suelo demasiado húmedo para operaciones con maquinaria. Se recomienda posponer trabajos de campo."]
    ELSE [canWork |-> TRUE, message |-> "Condiciones favorables para trabajar en el campo."]

\* recommended is "true", "false" or "no definido".
plantingRecommendation(indices) ==
    IF IsUndetermined(indices, "optimalPlantingConditions")
    THEN [recommended |-> "no definido",
          message |-> "No hay datos suficientes para evaluar condiciones de siembra."]
    ELSE IF "optimalPlantingConditions" \in DOMAIN indices
            /\ indices["optimalPlantingConditions"].b
    THEN [recommended |-> "true",
          message |-> "Condiciones óptimas para siembra. Temperatura y humedad del suelo adecuadas."]
    ELSE [recommended |-> "false",
          message |-> "Condiciones no óptimas para siembra. Verifique temperatura y humedad del suelo."]

\* The message is "Condiciones de cosecha: ${category}." and its suffix.
harvestingRecommendation(indices) ==
    LET category == IF "harvestConditions" \in DOMAIN indices
                    THEN indices["harvestConditions"].s ELSE "No disponibles"
    IN  [recommended |-> category = "Buenas",
         category |-> category,
         suffix |-> IF category = "Buenas" THEN " Aproveche para cosechar hoy."
                    ELSE IF category = "Malas" THEN " Se recomienda posponer la cosecha."
                    ELSE ""]

generateRecommendations(data, indices) ==
    [irrigation |-> irrigationRecommendation(indices),
     pestControl |-> pestControlRecommendation(indices),
     fertilization |-> fertilizationRecommendation(data),
     fieldOperations |-> fieldOperationsRecommendation(data),
     planting |-> plantingRecommendation(indices),
     harvesting |-> harvestingRecommendation(indices)]

-----------------------------------------------------------------------------
(* The query facade.                                                       *)

\* SPANISH_REGION_COORDINATES, in tenths of a degree.
SPANISH_REGION_COORDINATES ==
    [r \in {"Andalucía", "Aragón", "Asturias", "Islas Baleares", "Islas Canarias",
            "Cantabria", "Castilla-La Mancha", "Castilla y León", "Catalunna",
            "Extremadura", "Galicia", "Madrid", "Murcia", "Navarra", "País Vasco",
            "La Rioja", "Comunidad Valenciana", "Ceuta", "Melilla"} |->
        CASE r = "Andalucía" -> <<375, -45>>
          [] r = "Aragón" -> <<415, -5>>
          [] r = "Asturias" -> <<433, -60>>
          [] r = "Islas Baleares" -> <<395, 30>>
          [] r = "Islas Canarias" -> <<283, -165>>
          [] r = "Cantabria" -> <<432, -40>>
          [] r = "Castilla-La Mancha" -> <<395, -30>>
          [] r = "Castilla y León" -> <<418, -45>>
          [] r = "Catalunna" -> <<418, 15>>
          [] r = "Extremadura" -> <<390, -60>>
          [] r = "Galicia" -> <<425, -80>>
          [] r = "Madrid" -> <<404, -37>>
          [] r = "Murcia" -> <<380, -15>>
          [] r = "Navarra" -> <<428, -16>>
          [] r = "País Vasco" -> <<430, -25>>
          [] r = "La Rioja" -> <<423, -25>>
          [] r = "Comunidad Valenciana" -> <<395, -5>>
          [] r = "Ceuta" -> <<359, -53>>
          [] r = "Melilla" -> <<353, -29>>]

\* The table is an object literal: a name it does not hold is looked up on
\* Object.prototype, whose properties are functions and objects, not numbers.
ObjectPrototypeKeys ==
    {"constructor", "hasOwnProperty", "isPrototypeOf", "propertyIsEnumerable",
     "toLocaleString", "toString", "valueOf", "__proto__",
     "__defineGetter__", "__defineSetter__", "__lookupGetter__", "__lookupSetter__"}

NoCoordinates == [tag |-> "undefined", latitude |-> 0, longitude |-> 0]
Coordinates(lat, lon) == [tag |-> "coordinates", latitude |-> lat, longitude |-> lon]

\* SPANISH_REGION_COORDINATES[region]
LookupRegion(r) ==
    IF r \in DOMAIN SPANISH_REGION_COORDINATES
    THEN Coordinates(SPANISH_REGION_COORDINATES[r][1], SPANISH_REGION_COORDINATES[r][2])
    ELSE IF r \in ObjectPrototypeKeys
    THEN [tag |-> "inherited", latitude |-> 0, longitude |-> 0]
    ELSE NoCoordinates

\* !coordinates
CoordinatesMissing(c) == c.tag = "undefined"

NoRequest == [parameters |-> << >>, start |-> "", end |-> ""]
NoResult == [kind |-> "none"]
NoError == [kind |-> "none", detail |-> << >>]
EmptyBody == [shape |-> "ok", parameter |-> << >>]

LookupError(r) ==
    [kind |-> "Error", detail |-> <<"No se encontraron coordenadas para la región: ", r>>]
NoDataError ==
    [kind |-> "Error", detail |-> <<"No se obtuvieron datos meteorológicos">>]
\* Reading a property of undefined.
UndefinedTypeError ==
    [kind |-> "TypeError", detail |-> <<"Cannot read properties of undefined">>]

Resolve(value) == [outcome |-> "resolved", result |-> value, error |-> NoError]
Throw(err) == [outcome |-> "rejected", result |-> NoResult, error |-> err]

Ops == {"getWeatherData", "getWeatherDataForSpanishRegion", "getAgriculturalData",
        "isRaining", "shouldIrrigate", "checkFrostRisk", "checkPlantingConditions"}

\* The operations that interpret the records after the fetch.
AdvisoryOps == {"isRaining", "shouldIrrigate", "checkFrostRisk", "checkPlantingConditions"}

\* The parameter list each operation hands to the fetch.
RequestedParameters(o) ==
    CASE o = "getWeatherData" -> <<"T2M">>
      [] o = "getWeatherDataForSpanishRegion" ->
            <<"T2M", "T2M_MAX", "T2M_MIN", "PRECTOTCORR", "RH2M", "WS10M", "TSOIL1",
              "TSOIL2", "EVLAND", "ALLSKY_SFC_PAR_TOT">>
      [] o = "getAgriculturalData" ->
            <<"T2M", "T2M_MAX", "T2M_MIN", "PRECTOTCORR", "RH2M", "WS10M", "WD10M",
              "PS", "CLOUD_AMT", "ALLSKY_SFC_SW_DWN", "TSOIL1", "TSOIL2", "GWETROOT",
              "GWETTOP", "EVLAND", "ALLSKY_SFC_PAR_TOT", "T2MDEW", "T2MWET">>
      [] o = "isRaining" -> <<"PRECTOTCORR">>
      [] o = "shouldIrrigate" -> <<"PRECTOTCORR", "T2M", "RH2M", "TSOIL1", "EVLAND">>
      [] o = "checkFrostRisk" -> <<"T2M_MIN">>
      [] o = "checkPlantingConditions" -> <<"TSOIL1", "TSOIL2", "PRECTOTCORR", "T2M">>

\* The date range, relative to the day of the call where the operation sets it.
RequestedRange(o) ==
    CASE o = "isRaining" -> <<"today", "today">>
      [] o = "shouldIrrigate" -> <<"today-2", "today">>
      [] o = "checkFrostRisk" -> <<"today", "today+1">>
      [] o = "checkPlantingConditions" -> <<"today", "today+1">>
      [] OTHER -> <<"startDate", "endDate">>

\* The fields of the records each advisory operation reads to decide.
FieldsRead(o) ==
    CASE o = "isRaining" -> {"precipitation"}
      [] o = "shouldIrrigate" -> {"precipitation", "soilMoisture", "evapotranspiration"}
      [] o = "checkFrostRisk" -> {"minTemperature"}
      [] o = "checkPlantingConditions" -> {"soilMoisture", "soilTemperature", "precipitation"}

\* isRaining, after the fetch.
isRaining(data) ==
    IF Len(data) = 0 THEN Throw(NoDataError)
    ELSE Resolve([kind |-> "isRaining",
                  value |-> OrZero(data[1], "precipitation") > 0])

\* shouldIrrigate, after the fetch.  shouldIrrigate is "true", "false" or
\* "no definido"; recommendedAmount is << >> when the property is absent.
\* weatherData[weatherData.length - 1]
TodayFirst(data) == data[1]
Today(data) == data[Len(data)]

\* The measurements of the records are counted in 1/unit: with unit 1 they
\* are whole numbers, with unit 2 halves.  recommendedAmount is
\* Math.round((30 - soilMoisture) * 0.5), a whole number of mm.
shouldIrrigateIn(data, unit) ==
    IF Len(data) = 0 THEN Throw(NoDataError)
    ELSE LET today == Today(data)
             soilMoisture == OrZero(today, "soilMoisture")
             evapotranspiration == OrZero(today, "evapotranspiration")
         IN  IF \/ Is(today, "precipitation", FILL * unit)
                \/ Is(today, "soilMoisture", FILL * unit)
                \/ Is(today, "evapotranspiration", FILL * unit)
                \/ Is(today, "soilMoisture", 0)
             THEN Resolve([kind |-> "shouldIrrigate", shouldIrrigate |-> "no definido",
                           reason |-> "No hay datos suficientes para determinar la necesidad de riego.",
                           recommendedAmount |-> << >>])
             ELSE IF OrZero(today, "precipitation") > 5 * unit
             THEN Resolve([kind |-> "shouldIrrigate", shouldIrrigate |-> "false",
                           reason |-> "Ha llovido suficiente hoy, no es necesario regar.",
                           recommendedAmount |-> << >>])
             ELSE IF soilMoisture < 30 * unit /\ evapotranspiration > 4 * unit
             THEN Resolve([kind |-> "shouldIrrigate", shouldIrrigate |-> "true",
                           reason |-> "Baja humedad del suelo y alta evapotranspiración.",
                           recommendedAmount |->
                               <<Round(30 * unit - soilMoisture, 2 * unit)>>])
             ELSE Resolve([kind |-> "shouldIrrigate", shouldIrrigate |-> "false",
                           reason |-> "Condiciones adecuadas: humedad del suelo y evapotranspiración.",
                           recommendedAmount |-> << >>])

shouldIrrigate(data) == shouldIrrigateIn(data, 1)

\* The lowest of a non-empty sequence of numbers.
LowestFirst(s) == s[1]
RECURSIVE Lowest(_)
Lowest(s) == IF Len(s) = 1 THEN s[1] ELSE Min(s[1], Lowest(Tail(s)))

\* checkFrostRisk from the minimum temperatures on.  Math.min() of no number
\* is Infinity, which is above every threshold.
frostRiskOf(data) ==
    LET minTemps == [i \in 1..Len(data) |-> OrZero(data[i], "minTemperature")]
    IN  IF \E i \in 1..Len(minTemps) : minTemps[i] = FILL \/ minTemps[i] = 0
        THEN [kind |-> "checkFrostRisk", riskLevel |-> "no definido",
              message |-> "No hay datos disponibles para determinar el riesgo de heladas."]
        ELSE IF Len(minTemps) > 0 /\ Lowest(minTemps) <= 0
        THEN [kind |-> "checkFrostRisk", riskLevel |-> "alto",
              message |-> "¡ALERTA! Riesgo alto de heladas."]
        ELSE IF Len(minTemps) > 0 /\ Lowest(minTemps) <= 3
        THEN [kind |-> "checkFrostRisk", riskLevel |-> "medio",
              message |-> "Riesgo medio de heladas."]
        ELSE [kind |-> "checkFrostRisk", riskLevel |-> "bajo",
              message |-> "Riesgo bajo de heladas."]

\* checkFrostRisk, after the fetch.
checkFrostRiskUnguarded(data) == Resolve(frostRiskOf(data))
checkFrostRisk(data) ==
    IF Len(data) = 0 THEN Throw(NoDataError) ELSE Resolve(frostRiskOf(data))

\* forecastData ? (forecastData.precipitation || 0) > 1 : false
forecastRainOfToday(data) == OrZero(data[1], "precipitation") > 1
forecastRainOf(data) == Len(data) > 1 /\ OrZero(data[2], "precipitation") > 1

\* checkPlantingConditions, after the fetch.  isOptimal is "true", "false" or
\* "no definido"; message is the sentences joined into the message.
checkPlantingConditions(data) ==
    IF Len(data) = 0 THEN Throw(NoDataError)
    ELSE LET currentData == data[1]
             hasForecast == Len(data) > 1
             soilMoisture == OrZero(currentData, "soilMoisture")
             soilTemperature == OrZero(currentData, "soilTemperature")
             rain == OrZero(currentData, "precipitation")
             forecastRain == forecastRainOf(data)
             details == [soilMoisture |-> soilMoisture, soilTemperature |-> soilTemperature,
                         rain |-> rain, forecastRain |-> forecastRain]
             isOptimal == /\ soilMoisture >= 30 /\ soilMoisture <= 70
                          /\ soilTemperature >= 10
                          /\ rain < 5
                          /\ ~forecastRain
         IN  IF \/ soilMoisture = FILL \/ soilTemperature = FILL \/ rain = FILL
                \/ soilMoisture = 0 \/ soilTemperature = 0
                \/ (hasForecast /\ Is(data[2], "precipitation", FILL))
             THEN Resolve([kind |-> "checkPlantingConditions", isOptimal |-> "no definido",
                           message |-> <<"No hay datos suficientes para determinar condiciones de siembra.">>,
                           details |-> details])
             ELSE IF isOptimal
             THEN Resolve([kind |-> "checkPlantingConditions", isOptimal |-> "true",
                           message |-> <<"Condiciones óptimas para siembra. Humedad y temperatura del suelo adecuadas, sin lluvias previstas.">>,
                           details |-> details])
             ELSE Resolve([kind |-> "checkPlantingConditions", isOptimal |-> "false",
                           message |-> <<"Condiciones no óptimas para siembra:">>
                               \o (IF soilMoisture < 30 THEN <<" Suelo demasiado seco.">>
                                   ELSE IF soilMoisture > 70 THEN <<" Suelo demasiado húmedo.">>
                                   ELSE << >>)
                               \o (IF soilTemperature < 10
                                   THEN <<" Temperatura del suelo demasiado baja.">> ELSE << >>)
                               \o (IF rain >= 5 THEN <<" Lluvia reciente.">> ELSE << >>)
                               \o (IF forecastRain
                                   THEN <<" Lluvia prevista para mañana.">> ELSE << >>),
                           details |-> details])

\* A getAgriculturalData that derives every day's indices from the first record.
getAgriculturalDataFirstRecord(data) ==
    LET indices == [i \in 1..Len(data) |-> calculateAgroClimateIndices(data[1])]
        recommendations ==
            [i \in 1..Len(data) |-> generateRecommendations(data[i], indices[i])]
    IN  Resolve([kind |-> "getAgriculturalData", weatherData |-> data,
                 indices |-> indices, recommendations |-> recommendations])

\* getAgriculturalData, after the fetch.
getAgriculturalData(data) ==
    LET indices == [i \in 1..Len(data) |-> calculateAgroClimateIndices(data[i])]
        recommendations ==
            [i \in 1..Len(data) |-> generateRecommendations(data[i], indices[i])]
    IN  Resolve([kind |-> "getAgriculturalData", weatherData |-> data,
                 indices |-> indices, recommendations |-> recommendations])

\* What the operation does with the records the fetch resolved with.
AfterFetch(o, data) ==
    CASE o = "getAgriculturalData" -> getAgriculturalData(data)
      [] o = "isRaining" -> isRaining(data)
      [] o = "shouldIrrigate" -> shouldIrrigate(data)
      [] o = "checkFrostRisk" -> checkFrostRisk(data)
      [] o = "checkPlantingConditions" -> checkPlantingConditions(data)

\* getWeatherData: the try block once the transport has resolved, and the
\* catch block, which logs and rethrows.
getWeatherDataTryStrict(body) ==
    IF StructureMissing(body) \/ Len(body.parameter) = 0
    THEN Throw(NoDataError)
    ELSE Resolve([kind |-> "weatherData", value |-> processApiResponse(body)])
getWeatherDataTry(body) ==
    Resolve([kind |-> "weatherData", value |-> processApiResponse(body)])

getWeatherDataCatch(err) == err

\* makeApiRequest: the catch block, which logs and rethrows, and where the
\* invocation stands after it: it has failed, the request is not made again.
makeApiRequestCatchWrapped(err) ==
    [kind |-> "Error", detail |-> <<"Error en la petición a NASA POWER API">> \o err.detail]
makeApiRequestCatch(err) == err

AfterTransportErrorRetry == "request"
AfterTransportError == "done"

-----------------------------------------------------------------------------
(* The invocations of the public operations, one at a time.                *)

RegionInputs == {"Madrid", "REGION_INVALIDA", "constructor"}

\* The coordinates a caller of getWeatherData supplies.
CallerCoordinates == Coordinates(404, -37)

TransportErrors ==
    { [kind |-> "AxiosError", detail |-> <<"Error de red">>],
      [kind |-> "AxiosError", detail |-> <<"Request failed with status code 500">>] }

\* The bodies the transport resolves with: the ones that lack the structure,
\* and the ones the API sends, every parameter with its units and the same days.
BodyCodes == <<"PRECTOTCORR", "T2M_MIN", "EVLAND">>
BodyValues == {FILL, 0, 6}

DayKey(d) == <<"2", "0", "2", "4", "0", "1", "0", Digits[d + 1]>>

MalformedBodies ==
    { [shape |-> "nodata", parameter |-> << >>],
      [shape |-> "noproperties", parameter |-> << >>],
      [shape |-> "noparameter", parameter |-> << >>],
      EmptyBody,
      [shape |-> "ok",
       parameter |-> <<[k |-> "T2M_MIN", isObject |-> FALSE, entries |-> << >>]>>] }

\* The value object of one parameter: its units and one measurement per day.
ApiParameter(code, days, measured) ==
    [k |-> code,
     isObject |-> TRUE,
     entries |-> <<[k |-> units, v |-> Str(<<"C">>)]>>
                    \o [d \in 1..days |-> [k |-> DayKey(d), v |-> Num(measured[d])]]]

\* The parameters from the i-th code of BodyCodes on.
RECURSIVE ApiParameters(_, _, _, _)
ApiParameters(i, codes, days, values) ==
    IF i > Len(BodyCodes) THEN << >>
    ELSE (IF BodyCodes[i] \in codes
          THEN <<ApiParameter(BodyCodes[i], days, values[BodyCodes[i]])>>
          ELSE << >>)
         \o ApiParameters(i + 1, codes, days, values)

ApiBody(codes, days, values) ==
    [shape |-> "ok", parameter |-> ApiParameters(1, codes, days, values)]

Init ==
    /\ pc = "idle"
    /\ op = ""
    /\ region = ""
    /\ coordinates = NoCoordinates
    /\ request = NoRequest
    /\ transportCalls = 0
    /\ transport = "none"
    /\ transportError = NoError
    /\ response = EmptyBody
    /\ weatherData = << >>
    /\ outcome = "none"
    /\ result = NoResult
    /\ error = NoError

\* A caller invokes an operation.
Call(o, r) ==
    /\ pc = "idle"
    /\ op' = o
    /\ region' = r
    /\ coordinates' = IF o = "getWeatherData" THEN CallerCoordinates ELSE NoCoordinates
    /\ pc' = IF o = "getWeatherData" THEN "request" ELSE "lookup"
    /\ UNCHANGED <<request, transportCalls, transport, transportError, response,
                   weatherData, outcome, result, error>>

\* getWeatherDataForSpanishRegion up to its call of getWeatherData.
Lookup ==
    /\ pc = "lookup"
    /\ coordinates' = LookupRegion(region)
    /\ IF CoordinatesMissing(LookupRegion(region))
       THEN /\ pc' = "done"
            /\ outcome' = "rejected"
            /\ error' = LookupError(region)
       ELSE /\ pc' = "request"
            /\ UNCHANGED <<outcome, error>>
    /\ UNCHANGED <<op, region, request, transportCalls, transport, transportError,
                   response, weatherData, result>>

\* getWeatherData and makeApiRequest up to the await of axiosInstance.get:
\* coordinates.latitude.toString() throws when latitude is undefined, and the
\* catch block of getWeatherData rethrows.
Request ==
    /\ pc = "request"
    /\ IF coordinates.tag = "coordinates"
       THEN /\ request' = [parameters |-> RequestedParameters(op),
                           start |-> RequestedRange(op)[1],
                           end |-> RequestedRange(op)[2]]
            /\ transportCalls' = transportCalls + 1
            /\ pc' = "awaiting"
            /\ UNCHANGED <<outcome, error>>
       ELSE /\ pc' = "done"
            /\ outcome' = "rejected"
            /\ error' = getWeatherDataCatch(UndefinedTypeError)
            /\ UNCHANGED <<request, transportCalls>>
    /\ UNCHANGED <<op, region, coordinates, transport, transportError, response,
                   weatherData, result>>

\* The transport rejects: both catch blocks rethrow, the callers do not catch.
TransportRejects(err) ==
    /\ pc = "awaiting"
    /\ transport' = "rejected"
    /\ transportError' = err
    /\ pc' = AfterTransportError
    /\ IF AfterTransportError = "done"
       THEN /\ outcome' = "rejected"
            /\ error' = getWeatherDataCatch(makeApiRequestCatch(err))
       ELSE UNCHANGED <<outcome, error>>
    /\ UNCHANGED <<op, region, coordinates, request, transportCalls, response,
                   weatherData, result>>

\* The await of the transport yields `body`: getWeatherData normalizes it and
\* returns.
Awaited(body) ==
    /\ transport' = "resolved"
    /\ response' = body
    /\ \E r \in {getWeatherDataTry(body)} :
           IF r.outcome = "rejected"
           THEN /\ pc' = "done"
                /\ outcome' = "rejected"
                /\ error' = getWeatherDataCatch(r.error)
                /\ UNCHANGED <<weatherData, result>>
           ELSE /\ weatherData' = r.result.value
                /\ IF op \in {"getWeatherData", "getWeatherDataForSpanishRegion"}
                   THEN /\ pc' = "done"
                        /\ outcome' = "resolved"
                        /\ result' = r.result
                   ELSE /\ pc' = "fetched"
                        /\ UNCHANGED <<outcome, result>>
                /\ UNCHANGED error
    /\ UNCHANGED <<op, region, coordinates, request, transportCalls, transportError>>

\* The transport resolves with a body that lacks the structure.
TransportResolves(body) ==
    /\ pc = "awaiting"
    /\ Awaited(body)

\* The transport resolves with a body the API sends: some of the codes, over
\* some days, with some measurements.
TransportResolvesWithData ==
    /\ pc = "awaiting"
    /\ \E codes \in SUBSET {BodyCodes[i] : i \in 1..Len(BodyCodes)} \ {{}} :
         \E days \in 0..MaxDays :
           \E values \in [codes -> [1..days -> BodyValues]] :
             Awaited(ApiBody(codes, days, values))

\* The operation continues with the records of the fetch.
Complete ==
    /\ pc = "fetched"
    /\ \E r \in {AfterFetch(op, weatherData)} :
           /\ outcome' = r.outcome
           /\ result' = r.result
           /\ error' = r.error
    /\ pc' = "done"
    /\ UNCHANGED <<op, region, coordinates, request, transportCalls, transport,
                   transportError, response, weatherData>>

\* The caller has the outcome; the client holds nothing of the invocation.
Return ==
    /\ pc = "done"
    /\ pc' = "idle"
    /\ op' = ""
    /\ region' = ""
    /\ coordinates' = NoCoordinates
    /\ request' = NoRequest
    /\ transportCalls' = 0
    /\ transport' = "none"
    /\ transportError' = NoError
    /\ response' = EmptyBody
    /\ weatherData' = << >>
    /\ outcome' = "none"
    /\ result' = NoResult
    /\ error' = NoError

Next ==
    \/ \E r \in RegionInputs : \E o \in Ops \ {"getWeatherData"} : Call(o, r)
    \/ Call("getWeatherData", "")
    \/ Lookup
    \/ Request
    \/ \E err \in TransportErrors : TransportRejects(err)
    \/ \E body \in MalformedBodies : TransportResolves(body)
    \/ TransportResolvesWithData
    \/ Complete
    \/ Return

Spec == Init /\ [][Next]_vars

-----------------------------------------------------------------------------
(* The normalizer on its own: a raw body is built, parameter by parameter  *)
(* and entry by entry in the order of the JSON text, and then normalized.  *)

CodeInputs == {"TSOIL1", "T_SOIL", "PRECTOTCORR", "GWETPROF"}

KeyInputs == {
    <<"2", "0", "2", "4", "0", "1", "0", "1">>,
    <<"2", "0", "2", "4", "0", "1", "0", "2">>,
    <<"0", "9", "9", "9", "1", "2", "3", "1">>,
    <<"2", "0", "2", "4", "0", "1", "0">>,
    units }

ValueInputs == { Num(FILL), Num(7), Str(<<"1", "2">>) }


RECURSIVE EntryCount(_)
EntryCount(parameters) ==
    IF parameters = << >> THEN 0
    ELSE Len(parameters[1].entries) + EntryCount(Tail(parameters))

Size(resp) == Len(resp.parameter) + EntryCount(resp.parameter)

InitNorm ==
    /\ pc = "building"
    /\ op = "processApiResponse"
    /\ region = ""
    /\ coordinates = NoCoordinates
    /\ request = NoRequest
    /\ transportCalls = 0
    /\ transport = "none"
    /\ transportError = NoError
    /\ response = EmptyBody
    /\ weatherData = << >>
    /\ outcome = "none"
    /\ result = NoResult
    /\ error = NoError

facadeVars == <<op, region, coordinates, request, transportCalls, transport,
                transportError, outcome, result, error>>

\* The next parameter of the JSON text: an object, or a value that is none.
AddParameter(code, isObject) ==
    /\ pc = "building"
    /\ Size(response) < MaxSize
    /\ ~HasProperty(response.parameter, code)
    /\ response' = [response EXCEPT !.parameter =
                      Append(@, [k |-> code, isObject |-> isObject, entries |-> << >>])]
    /\ UNCHANGED <<pc, weatherData, facadeVars>>

\* The next entry of the parameter object being written.
AddEntry(key, value) ==
    /\ pc = "building"
    /\ Size(response) < MaxSize
    /\ Len(response.parameter) > 0
    /\ LET n == Len(response.parameter)
       IN  /\ response.parameter[n].isObject
           /\ ~HasProperty(response.parameter[n].entries, key)
           /\ response' = [response EXCEPT !.parameter[n].entries =
                             Append(@, [k |-> key, v |-> value])]
    /\ UNCHANGED <<pc, weatherData, facadeVars>>

Normalize ==
    /\ pc = "building"
    /\ weatherData' = processApiResponse(response)
    /\ pc' = "normalized"
    /\ UNCHANGED <<response, facadeVars>>

NextNorm ==
    \/ \E code \in CodeInputs, isObject \in BOOLEAN : AddParameter(code, isObject)
    \/ \E key \in KeyInputs, value \in ValueInputs : AddEntry(key, value)
    \/ Normalize

SpecNorm == InitNorm /\ [][NextNorm]_vars

-----------------------------------------------------------------------------
(* The advisory operations on their own: the fetch of an operation yields  *)
(* records, one per day of the range the operation asks for, and the       *)
(* operation interprets them.                                              *)

\* The days of the range each advisory operation asks for.
RequestedDays(o) ==
    CASE o = "isRaining" -> 1
      [] o = "shouldIrrigate" -> 3
      [] o = "checkFrostRisk" -> 2
      [] o = "checkPlantingConditions" -> 2

\* The fields of a record the operation reads, and a field it does not read
\* where it reads only one.
AdviceFields(o) ==
    CASE o = "isRaining" -> {"precipitation", "temperature"}
      [] o = "shouldIrrigate" -> {"precipitation", "soilMoisture", "evapotranspiration"}
      [] o = "checkFrostRisk" -> {"minTemperature", "temperature"}
      [] o = "checkPlantingConditions" -> {"soilMoisture", "soilTemperature", "precipitation"}

\* The measurements of a field: the fill value, zero where the operation
\* tells it from the other numbers, and a number on each side of every
\* threshold the operation compares the field with.
AdviceValues(o, f) ==
    CASE f = "temperature" -> {15}
      [] f = "minTemperature" -> {FILL, 0 - 2, 0, 2, 6}
      [] f = "soilTemperature" -> {FILL, 0, 5, 12}
      [] f = "evapotranspiration" -> {FILL, 3, 6}
      [] f = "soilMoisture" ->
            IF o = "shouldIrrigate" THEN {FILL, 0, 20, 40} ELSE {FILL, 0, 20, 40, 80}
      [] f = "precipitation" ->
            IF o = "checkPlantingConditions" THEN {FILL, 0, 2, 6} ELSE {FILL, 0, 6}

\* The records a day of the fetch can yield: some of the fields, not none.
AdviceRecords(o) ==
    UNION { [F -> UNION {AdviceValues(o, f) : f \in F}] : F \in SUBSET AdviceFields(o) \ {{}} }

InitAdvice ==
    /\ pc = "idle"
    /\ op = ""
    /\ region = ""
    /\ coordinates = NoCoordinates
    /\ request = NoRequest
    /\ transportCalls = 0
    /\ transport = "none"
    /\ transportError = NoError
    /\ response = EmptyBody
    /\ weatherData = << >>
    /\ outcome = "none"
    /\ result = NoResult
    /\ error = NoError

\* An advisory operation is invoked and awaits its fetch.
Invoke(o) ==
    /\ pc = "idle"
    /\ op' = o
    /\ pc' = "fetching"
    /\ UNCHANGED <<region, coordinates, request, transportCalls, transport,
                   transportError, response, weatherData, outcome, result, error>>

\* The fetch yields the record of the next day; the parameters that have a
\* value are the same every day.
NextRecord ==
    /\ pc = "fetching"
    /\ Len(weatherData) < RequestedDays(op)
    /\ \E fields \in AdviceRecords(op) :
          /\ \A f \in DOMAIN fields : fields[f] \in AdviceValues(op, f)
          /\ weatherData # << >> => DOMAIN fields = DOMAIN weatherData[1].fields
          /\ weatherData' =
                Append(weatherData, [date |-> DayKey(Len(weatherData) + 1), fields |-> fields])
    /\ UNCHANGED <<pc, op, region, coordinates, request, transportCalls, transport,
                   transportError, response, outcome, result, error>>

\* The fetch has resolved with the records; the operation interprets them.
Advise ==
    /\ pc = "fetching"
    /\ \E r \in {AfterFetch(op, weatherData)} :
           /\ outcome' = r.outcome
           /\ result' = r.result
           /\ error' = r.error
    /\ pc' = "done"
    /\ UNCHANGED <<op, region, coordinates, request, transportCalls, transport,
                   transportError, response, weatherData>>

NextAdvice ==
    \/ \E o \in AdvisoryOps : Invoke(o)
    \/ NextRecord
    \/ Advise

SpecAdvice == InitAdvice /\ [][NextAdvice]_vars

-----------------------------------------------------------------------------
(* calculateAgroClimateIndices alone: a record is put together field by    *)
(* field from measurements that include negative values, zero and the fill *)
(* value, and its indices are derived.                                     *)

MeasuredFields ==
    {"precipitation", "evapotranspiration", "maxTemperature", "humidity",
     "minTemperature", "temperature", "soilMoisture", "soilTemperature"}

Measurements(f) ==
    CASE f = "precipitation" -> {FILL, 0, 2, 6}
      [] f = "evapotranspiration" -> {FILL, 0 - 2, 0, 4}
      [] f = "maxTemperature" -> {FILL, 0, 30, 50}
      [] f = "humidity" -> {FILL, 0, 60, 82, 90}
      [] f = "minTemperature" -> {FILL, 0 - 2, 0, 2, 5}
      [] f = "temperature" -> {20}
      [] f = "soilMoisture" -> {FILL, 20, 40}
      [] f = "soilTemperature" -> {12}

InitIndices ==
    /\ pc = "idle"
    /\ op = ""
    /\ region = ""
    /\ coordinates = NoCoordinates
    /\ request = NoRequest
    /\ transportCalls = 0
    /\ transport = "none"
    /\ transportError = NoError
    /\ response = EmptyBody
    /\ weatherData = << >>
    /\ outcome = "none"
    /\ result = NoResult
    /\ error = NoError

\* The record gets one more field.
Measure ==
    /\ pc = "idle"
    /\ \E f \in MeasuredFields :
          /\ weatherData # << >> => f \notin DOMAIN weatherData[1].fields
          /\ \E v \in Measurements(f) :
                LET before == IF weatherData = << >> THEN {} ELSE DOMAIN weatherData[1].fields
                IN  weatherData' =
                        <<[date |-> DayKey(1),
                           fields |-> [g \in before \cup {f} |->
                                          IF g = f THEN v ELSE weatherData[1].fields[g]]]>>
    /\ UNCHANGED <<pc, op, region, coordinates, request, transportCalls, transport,
                   transportError, response, outcome, result, error>>

\* The indices of the record are derived.
Derive ==
    /\ pc = "idle"
    /\ weatherData # << >>
    /\ op' = "calculateAgroClimateIndices"
    /\ outcome' = "resolved"
    /\ result' = [kind |-> "indices", value |-> calculateAgroClimateIndices(weatherData[1])]
    /\ pc' = "done"
    /\ UNCHANGED <<region, coordinates, request, transportCalls, transport,
                   transportError, response, weatherData, error>>

NextIndices ==
    \/ Measure
    \/ Derive

SpecIndices == InitIndices /\ [][NextIndices]_vars

-----------------------------------------------------------------------------
(* The exported helpers: calculateWaterStressIndex, estimateCropPotential  *)
(* and generateAgriculturalCalendar.                                       *)

\* The status of a stress index given in hundredths, read with <= in place of <.
statusOfInclusive(stressIndex) ==
    IF stressIndex <= 300 THEN "óptimo"
    ELSE IF stressIndex <= 500 THEN "leve"
    ELSE IF stressIndex <= 750 THEN "moderado"
    ELSE "severo"

\* The status of a stress index given in hundredths.
statusOf(stressIndex) ==
    IF stressIndex < 300 THEN "óptimo"
    ELSE IF stressIndex < 500 THEN "leve"
    ELSE IF stressIndex < 750 THEN "moderado"
    ELSE "severo"

stressRecommendation(status) ==
    CASE status = "óptimo" -> "No es necesario regar. Condiciones hídricas adecuadas."
      [] status = "leve" ->
            "Monitorear la humedad del suelo. Riego ligero recomendado si no hay previsión de lluvia."
      [] status = "moderado" ->
            "Estrés hídrico moderado. Se recomienda riego para evitar daños a los cultivos."
      [] status = "severo" ->
            "Estrés hídrico severo. Riego urgente para evitar pérdidas significativas."

\* precipitation and evapotranspiration are given in tenths of a millimetre,
\* soilMoisture in percent; the stress index is returned in hundredths.
calculateWaterStressIndex(precipitation, evapotranspiration, soilMoisture) ==
    LET waterBalance == precipitation - evapotranspiration
        stressIndex == Max(0, Min(1000, 500 - 10 * waterBalance - 5 * soilMoisture))
    IN  [stressIndex |-> stressIndex,
         status |-> statusOf(stressIndex),
         recommendation |-> stressRecommendation(statusOf(stressIndex))]

\* reduce((sum, data) => sum + (data.f || 0), 0)
RECURSIVE SumOrZero(_, _)
SumOrZero(data, f) ==
    IF data = << >> THEN 0
    ELSE OrZero(data[1], f) + SumOrZero(Tail(data), f)

\* Math.max(...data.map(d => d.f || 0)) and Math.min of the same, data not empty
RECURSIVE MaxOrZero(_, _)
MaxOrZero(data, f) ==
    IF Len(data) = 1 THEN OrZero(data[1], f)
    ELSE Max(OrZero(data[1], f), MaxOrZero(Tail(data), f))

RECURSIVE MinOrZero(_, _)
MinOrZero(data, f) ==
    IF Len(data) = 1 THEN OrZero(data[1], f)
    ELSE Min(OrZero(data[1], f), MinOrZero(Tail(data), f))

\* data.filter(d => (d.temperature || 0) < 7).length and
\* data.filter(d => (d.humidity || 0) > 75).length
ColdDays(data) == Cardinality({i \in 1..Len(data) : OrZero(data[i], "temperature") < 7})
HighHumidityDays(data) == Cardinality({i \in 1..Len(data) : OrZero(data[i], "humidity") > 75})

\* A limiting factor with the recommendation pushed along with it, if any.
Limit(condition, factor, recommendation) ==
    IF condition THEN <<[factor |-> factor, recommendation |-> recommendation]>> ELSE << >>

\* The potential for a number of limiting factors, with 'medio' for one only.
potentialYieldOfOne(count) ==
    IF count = 0 THEN "alto" ELSE IF count <= 1 THEN "medio" ELSE "bajo"

potentialYieldOf(count) ==
    IF count = 0 THEN "alto" ELSE IF count <= 2 THEN "medio" ELSE "bajo"

\* The limiting factors of a non-empty sequence: the averages are compared
\* as sums against the bound times the length.
LimitsOf(data, cropType) ==
    LET n == Len(data)
        sumTemp == SumOrZero(data, "temperature")
        sumSoilMoisture == SumOrZero(data, "soilMoisture")
        totalRain == SumOrZero(data, "precipitation")
        maxTemp == MaxOrZero(data, "maxTemperature")
        minTemp == MinOrZero(data, "minTemperature")
    IN  CASE cropType = "cereal" ->
                Limit(totalRain < 200, "Precipitación insuficiente para cereales",
                      "Implementar riego suplementario")
                \o Limit(sumTemp < 8 * n \/ sumTemp > 22 * n,
                         "Temperatura media fuera del rango óptimo para cereales",
                         "Considerar variedades adaptadas a las condiciones locales")
          [] cropType = "hortícola" ->
                Limit(sumSoilMoisture < 40 * n,
                      "Humedad de suelo insuficiente para cultivos hortícolas",
                      "Aumentar frecuencia de riego")
                \o Limit(maxTemp > 35, "Temperaturas máximas excesivas para hortícolas",
                         "Considerar sombreo o cultivo protegido")
          [] cropType = "frutal" ->
                Limit(minTemp < 0 - 2, "Riesgo de daño por heladas en frutales",
                      "Implementar sistemas de protección contra heladas")
                \o Limit(n > 30 /\ ColdDays(data) * 24 < 200,
                         "Posible insuficiencia de horas-frío para frutales", "")
          [] cropType = "olivo" ->
                Limit(totalRain > 600, "Precipitación excesiva para olivo",
                      "Asegurar buen drenaje en suelo")
                \o Limit(minTemp < 0 - 10, "Temperaturas mínimas peligrosas para olivos",
                         "Proteger árboles jóvenes en invierno")
          [] cropType = "viñedo" ->
                Limit(sumSoilMoisture > 60 * n, "Humedad excesiva del suelo para viñedo",
                      "Mejorar drenaje")
                \o Limit(2 * HighHumidityDays(data) > n,
                         "Alta humedad ambiental: mayor riesgo de enfermedades fúngicas",
                         "Implementar programa preventivo de control de mildiu y oídio")
          [] OTHER -> << >>

yieldRecommendation(potentialYield) ==
    CASE potentialYield = "alto" ->
            "Condiciones óptimas, mantener prácticas de manejo estándar"
      [] potentialYield = "medio" ->
            "Implementar las recomendaciones para mitigar factores limitantes"
      [] potentialYield = "bajo" ->
            "Considerar rotación a cultivos más adaptados a las condiciones locales"

\* The estimate for no record, with 'bajo' in place of 'medio'.
insufficientDataLow ==
    [potentialYield |-> "bajo",
     limitingFactors |-> <<"Datos insuficientes para una estimación precisa">>,
     recommendations |-> <<"Recolectar más datos meteorológicos">>]

\* The estimate for no record.
insufficientData ==
    [potentialYield |-> "medio",
     limitingFactors |-> <<"Datos insuficientes para una estimación precisa">>,
     recommendations |-> <<"Recolectar más datos meteorológicos">>]

estimateCropPotential(data, cropType) ==
    IF Len(data) = 0
    THEN insufficientData
    ELSE LET limits == LimitsOf(data, cropType)
             advised == SelectSeq(limits, LAMBDA l : l.recommendation # "")
             potentialYield == potentialYieldOf(Len(limits))
         IN  [potentialYield |-> potentialYield,
              limitingFactors |-> [i \in 1..Len(limits) |-> limits[i].factor],
              recommendations |->
                  [i \in 1..Len(advised) |-> advised[i].recommendation]
                  \o <<yieldRecommendation(potentialYield)>>]

\* The decimal digits of n >= 0, and n.toFixed(digits) for an integer n.
RECURSIVE DigitsOf(_)
DigitsOf(n) ==
    IF n < 10 THEN <<Digits[n + 1]>>
    ELSE DigitsOf(n \div 10) \o <<Digits[(n % 10) + 1]>>

toFixed(n, digits) ==
    (IF n < 0 THEN <<"-">> ELSE << >>)
    \o DigitsOf(Abs(n))
    \o (IF digits = 0 THEN << >> ELSE <<".">> \o [i \in 1..digits |-> "0"])

\* day.f is truthy: defined and not 0.
Truthy(day, f) == Has(day, f) /\ Get(day, f) # 0

\* day.f === undefined || day.f < n
UndefinedOrBelow(day, f, n) == ~Has(day, f) \/ Get(day, f) < n

\* The planting condition without the limit on precipitation.
plantingDayAnyRain(day) ==
    /\ Truthy(day, "soilMoisture")
    /\ Get(day, "soilMoisture") >= 30 /\ Get(day, "soilMoisture") <= 70
    /\ Truthy(day, "soilTemperature")
    /\ Get(day, "soilTemperature") >= 10

plantingDay(day) ==
    /\ Truthy(day, "soilMoisture")
    /\ Get(day, "soilMoisture") >= 30 /\ Get(day, "soilMoisture") <= 70
    /\ Truthy(day, "soilTemperature")
    /\ Get(day, "soilTemperature") >= 10
    /\ UndefinedOrBelow(day, "precipitation", 5)

treatmentDay(day) ==
    UndefinedOrBelow(day, "windSpeed", 10) /\ UndefinedOrBelow(day, "precipitation", 1)

harvestDay(day) ==
    UndefinedOrBelow(day, "precipitation", 1) /\ UndefinedOrBelow(day, "humidity", 70)

riegoRecomendacion(day) ==
    IF Has(day, "soilMoisture") /\ Has(day, "precipitation")
    THEN (IF Get(day, "soilMoisture") < 30 /\ Get(day, "precipitation") < 3
          THEN "Necesario"
          ELSE IF Get(day, "soilMoisture") >= 30 /\ Get(day, "soilMoisture") <= 60
          THEN "Opcional"
          ELSE "No recomendado")
    ELSE ""

\* The summary, as its parts in order: the label, the text of the value and
\* the unit.
weatherSummary(day) ==
    <<[label |-> "Temperatura: ",
       value |-> IF Has(day, "temperature") THEN toFixed(Get(day, "temperature"), 1)
                 ELSE <<"u", "n", "d", "e", "f", "i", "n", "e", "d">>,
       unit |-> "°C"]>>
    \o (IF Has(day, "precipitation")
        THEN <<[label |-> ", Precipitación: ",
                value |-> toFixed(Get(day, "precipitation"), 1), unit |-> " mm"]>>
        ELSE << >>)
    \o (IF Has(day, "humidity")
        THEN <<[label |-> ", Humedad: ",
                value |-> toFixed(Get(day, "humidity"), 0), unit |-> "%"]>>
        ELSE << >>)
    \o (IF Has(day, "soilMoisture")
        THEN <<[label |-> ", Humedad suelo: ",
                value |-> toFixed(Get(day, "soilMoisture"), 0), unit |-> "%"]>>
        ELSE << >>)
    \o <<[label |-> ", Riego: ", value |-> << >>, unit |-> riegoRecomendacion(day)]>>

\* One entry of nextDays.
calendarDay(day) ==
    [date |-> day.date,
     recommendedActivities |->
         (IF plantingDay(day) THEN <<"Siembra/trasplante">> ELSE << >>)
         \o (IF treatmentDay(day)
             THEN <<"Aplicación de tratamientos fitosanitarios">> ELSE << >>)
         \o (IF harvestDay(day) THEN <<"Cosecha">> ELSE << >>)
         \o (IF riegoRecomendacion(day) = "Necesario" THEN <<"Riego">> ELSE << >>),
     notRecommendedActivities |->
         (IF plantingDay(day) THEN << >> ELSE <<"Siembra/trasplante">>)
         \o (IF treatmentDay(day)
             THEN << >> ELSE <<"Aplicación de tratamientos fitosanitarios">>)
         \o (IF harvestDay(day) THEN << >> ELSE <<"Cosecha">>)
         \o (IF riegoRecomendacion(day) = "No recomendado" THEN <<"Riego">> ELSE << >>),
     weatherSummary |-> weatherSummary(day)]

\* A calendar whose entries are in the reverse of the order of the days.
generateAgriculturalCalendarReversed(forecastRegion, weatherForecast, cropType) ==
    [nextDays |->
        [i \in 1..Len(weatherForecast) |->
            calendarDay(weatherForecast[Len(weatherForecast) + 1 - i])]]

\* The region and the crop type are not read.
generateAgriculturalCalendar(forecastRegion, weatherForecast, cropType) ==
    [nextDays |-> [i \in 1..Len(weatherForecast) |-> calendarDay(weatherForecast[i])]]

-----------------------------------------------------------------------------
(* The helpers alone: each is called on arguments its caller put together. *)

\* The longest sequence given to estimateCropPotential and to
\* generateAgriculturalCalendar.
MaxCropDays == 5
MaxForecastDays == 1

CropTypes == {"cereal", "hortícola", "frutal", "olivo", "viñedo"}

\* Arguments of calculateWaterStressIndex: tenths of a millimetre and percent.
StressPrecipitations == {10 * FILL, 0, 25, 100}
StressEvapotranspirations == {10 * FILL, 0, 25, 48, 80}
StressSoilMoistures == {FILL, 0, 35, 40, 100}

\* The days a sequence given to estimateCropPotential is made of: the five
\* days of the example, a wet day without temperature and a hot day without
\* precipitation.
CropDays ==
    <<[temperature |-> 12, maxTemperature |-> 18, minTemperature |-> 5, precipitation |-> 0,
       humidity |-> 65, soilMoisture |-> 45, soilTemperature |-> 10],
      [temperature |-> 13, maxTemperature |-> 19, minTemperature |-> 6, precipitation |-> 0,
       humidity |-> 60, soilMoisture |-> 42, soilTemperature |-> 11],
      [temperature |-> 14, maxTemperature |-> 20, minTemperature |-> 7, precipitation |-> 5,
       humidity |-> 75, soilMoisture |-> 50, soilTemperature |-> 12],
      [temperature |-> 12, maxTemperature |-> 17, minTemperature |-> 6, precipitation |-> 10,
       humidity |-> 85, soilMoisture |-> 60, soilTemperature |-> 11],
      [temperature |-> 10, maxTemperature |-> 15, minTemperature |-> 4, precipitation |-> 2,
       humidity |-> 70, soilMoisture |-> 55, soilTemperature |-> 10],
      [minTemperature |-> 0 - 12, precipitation |-> 200, humidity |-> 90,
       soilMoisture |-> 90],
      [temperature |-> 40, maxTemperature |-> 45, minTemperature |-> 0 - 5,
       humidity |-> 80, soilMoisture |-> 20]>>

\* A value of the set, or none.
Optional(S) == {{}} \cup {{v} : v \in S}

\* The fields that got a value, with their values.
FieldsOf(chosen) ==
    [f \in {g \in DOMAIN chosen : chosen[g] # {}} |-> CHOOSE v \in chosen[f] : TRUE]

NoArguments == [kind |-> "none"]

InitTools ==
    /\ pc = "idle"
    /\ op = ""
    /\ region = ""
    /\ coordinates = NoCoordinates
    /\ request = NoArguments
    /\ transportCalls = 0
    /\ transport = "none"
    /\ transportError = NoError
    /\ response = EmptyBody
    /\ weatherData = << >>
    /\ outcome = "none"
    /\ result = NoResult
    /\ error = NoError

CallWaterStress ==
    /\ pc = "idle"
    /\ \E p \in StressPrecipitations, e \in StressEvapotranspirations,
          m \in StressSoilMoistures :
          /\ request' = [kind |-> "calculateWaterStressIndex", precipitation |-> p,
                         evapotranspiration |-> e, soilMoisture |-> m]
          /\ result' = calculateWaterStressIndex(p, e, m)
    /\ op' = "calculateWaterStressIndex"
    /\ outcome' = "resolved"
    /\ pc' = "done"
    /\ UNCHANGED <<region, coordinates, transportCalls, transport, transportError,
                   response, weatherData, error>>

\* The caller starts putting a sequence of days together for a helper.
Collect(helper) ==
    /\ pc = "idle"
    /\ op' = helper
    /\ pc' = "collecting"
    /\ UNCHANGED <<region, coordinates, request, transportCalls, transport,
                   transportError, response, weatherData, outcome, result, error>>

ObservedDay ==
    /\ pc = "collecting"
    /\ op = "estimateCropPotential"
    /\ Len(weatherData) < MaxCropDays
    /\ \E k \in 1..Len(CropDays) :
          weatherData' =
              Append(weatherData, [date |-> DayKey(Len(weatherData) + 1), fields |-> CropDays[k]])
    /\ UNCHANGED <<pc, op, region, coordinates, request, transportCalls, transport,
                   transportError, response, outcome, result, error>>

ForecastDay ==
    /\ pc = "collecting"
    /\ op = "generateAgriculturalCalendar"
    /\ Len(weatherData) < MaxForecastDays
    /\ \E m \in Optional({0, 30, 40, 70, 80}), t \in Optional({9, 10, 12}),
          p \in Optional({0, 4, 5}), w \in Optional({12}), h \in Optional({80}),
          a \in Optional({15}) :
          weatherData' =
              Append(weatherData,
                     [date |-> DayKey(Len(weatherData) + 1),
                      fields |-> FieldsOf([soilMoisture |-> m, soilTemperature |-> t,
                                           precipitation |-> p, windSpeed |-> w,
                                           humidity |-> h, temperature |-> a])])
    /\ UNCHANGED <<pc, op, region, coordinates, request, transportCalls, transport,
                   transportError, response, outcome, result, error>>

\* The forecast of the example: five days of February.
pronosticoSimulado ==
    <<[date |-> <<"2", "0", "2", "3", "0", "2", "0", "1">>,
       fields |-> [temperature |-> 14, maxTemperature |-> 19, minTemperature |-> 8,
                   precipitation |-> 0, humidity |-> 55, soilMoisture |-> 40,
                   soilTemperature |-> 12, windSpeed |-> 5]],
      [date |-> <<"2", "0", "2", "3", "0", "2", "0", "2">>,
       fields |-> [temperature |-> 15, maxTemperature |-> 20, minTemperature |-> 9,
                   precipitation |-> 0, humidity |-> 50, soilMoisture |-> 38,
                   soilTemperature |-> 13, windSpeed |-> 8]],
      [date |-> <<"2", "0", "2", "3", "0", "2", "0", "3">>,
       fields |-> [temperature |-> 16, maxTemperature |-> 22, minTemperature |-> 10,
                   precipitation |-> 0, humidity |-> 45, soilMoisture |-> 35,
                   soilTemperature |-> 14, windSpeed |-> 12]],
      [date |-> <<"2", "0", "2", "3", "0", "2", "0", "4">>,
       fields |-> [temperature |-> 14, maxTemperature |-> 18, minTemperature |-> 9,
                   precipitation |-> 15, humidity |-> 80, soilMoisture |-> 60,
                   soilTemperature |-> 12, windSpeed |-> 15]],
      [date |-> <<"2", "0", "2", "3", "0", "2", "0", "5">>,
       fields |-> [temperature |-> 12, maxTemperature |-> 16, minTemperature |-> 7,
                   precipitation |-> 5, humidity |-> 75, soilMoisture |-> 55,
                   soilTemperature |-> 11, windSpeed |-> 10]]>>

\* The caller hands over the first days of the forecast of the example.
ExampleForecast ==
    /\ pc = "collecting"
    /\ op = "generateAgriculturalCalendar"
    /\ weatherData = << >>
    /\ \E n \in 1..Len(pronosticoSimulado) :
          weatherData' = SubSeq(pronosticoSimulado, 1, n)
    /\ UNCHANGED <<pc, op, region, coordinates, request, transportCalls, transport,
                   transportError, response, outcome, result, error>>

\* The date of the d-th day of a season, d below 100.
SeasonKey(d) ==
    <<"2", "0", "2", "4", "0", "1", Digits[(d \div 10) + 1], Digits[(d % 10) + 1]>>

\* The caller hands over a season of 31 days of the same kind, the shortest
\* one for which the cold hours of fruit trees are counted.
ObservedSeason ==
    /\ pc = "collecting"
    /\ op = "estimateCropPotential"
    /\ weatherData = << >>
    /\ \E k \in 1..Len(CropDays) :
          weatherData' = [d \in 1..31 |-> [date |-> SeasonKey(d), fields |-> CropDays[k]]]
    /\ UNCHANGED <<pc, op, region, coordinates, request, transportCalls, transport,
                   transportError, response, outcome, result, error>>

Estimate ==
    /\ pc = "collecting"
    /\ op = "estimateCropPotential"
    /\ \E cropType \in CropTypes :
          /\ request' = [kind |-> "estimateCropPotential", cropType |-> cropType]
          /\ result' = estimateCropPotential(weatherData, cropType)
    /\ outcome' = "resolved"
    /\ pc' = "done"
    /\ UNCHANGED <<op, region, coordinates, transportCalls, transport, transportError,
                   response, weatherData, error>>

Generate ==
    /\ pc = "collecting"
    /\ op = "generateAgriculturalCalendar"
    /\ request' = [kind |-> "generateAgriculturalCalendar", cropType |-> "olivo"]
    /\ result' = generateAgriculturalCalendar("Andalucía", weatherData, "olivo")
    /\ outcome' = "resolved"
    /\ pc' = "done"
    /\ UNCHANGED <<op, region, coordinates, transportCalls, transport, transportError,
                   response, weatherData, error>>

NextTools ==
    \/ CallWaterStress
    \/ \E helper \in {"estimateCropPotential", "generateAgriculturalCalendar"} :
          Collect(helper)
    \/ ObservedDay
    \/ ObservedSeason
    \/ ForecastDay
    \/ ExampleForecast
    \/ Estimate
    \/ Generate

SpecTools == InitTools /\ [][NextTools]_vars

-----------------------------------------------------------------------------
(* Two invocations on one client.  Every variable but the transport holds  *)
(* one value per invocation: the parameters and locals of its activation.  *)
(* The transport is the axios instance the constructor creates, the only   *)
(* object the invocations share.  An invocation runs without interruption  *)
(* up to an await; the other one may run between two of its steps.         *)

Calls == {1, 2}

\* What the constructor sets.
ClientConfig ==
    [apiBaseUrl |-> "https://power.larc.nasa.gov/api/temporal/daily/point",
     timeout |-> 30000,
     headers |-> [ContentType |-> "application/json", Accept |-> "application/json"]]

PairRegions == {"Madrid", "REGION_INVALIDA"}

\* What the transport settles with: an error, a body without the structure,
\* or one of two bodies with different measurements.
PairReplies ==
    { [settled |-> "rejected", err |-> [kind |-> "AxiosError", detail |-> <<"Error de red">>],
       body |-> EmptyBody],
      [settled |-> "resolved", err |-> NoError,
       body |-> [shape |-> "noparameter", parameter |-> << >>]],
      [settled |-> "resolved", err |-> NoError,
       body |-> [shape |-> "ok",
                 parameter |-> <<ApiParameter("PRECTOTCORR", 1, <<6>>),
                                 ApiParameter("T2M_MIN", 1, <<0 - 2>>)>>]],
      [settled |-> "resolved", err |-> NoError,
       body |-> [shape |-> "ok",
                 parameter |-> <<ApiParameter("PRECTOTCORR", 1, <<0>>),
                                 ApiParameter("T2M_MIN", 1, <<6>>)>>]] }

\* The response an invocation normalizes: the one its own await yielded.
\* ResponseOfFirst is a client that keeps the response in a field the
\* invocations share.
ResponseOfFirst(c) == response[1]
ResponseOf(c) == response[c]

InitPair ==
    /\ pc = [c \in Calls |-> "idle"]
    /\ op = [c \in Calls |-> ""]
    /\ region = [c \in Calls |-> ""]
    /\ coordinates = [c \in Calls |-> NoCoordinates]
    /\ request = [c \in Calls |-> NoRequest]
    /\ transportCalls = 0
    /\ transport = ClientConfig
    /\ transportError = [c \in Calls |-> NoError]
    /\ response = [c \in Calls |-> EmptyBody]
    /\ weatherData = [c \in Calls |-> << >>]
    /\ outcome = [c \in Calls |-> "none"]
    /\ result = [c \in Calls |-> NoResult]
    /\ error = [c \in Calls |-> NoError]

\* The invocation c runs up to the await of axiosInstance.get, or fails
\* before it: the region is looked up and the request is handed to the
\* transport.
PairCall(c) ==
    /\ pc[c] = "idle"
    /\ \E o \in Ops, r \in PairRegions :
         LET found == IF o = "getWeatherData" THEN CallerCoordinates ELSE LookupRegion(r)
             failed == o # "getWeatherData" /\ CoordinatesMissing(found)
         IN  /\ o = "getWeatherData" => r = "Madrid"
             /\ op' = [op EXCEPT ![c] = o]
             /\ region' = [region EXCEPT ![c] = IF o = "getWeatherData" THEN "" ELSE r]
             /\ coordinates' = [coordinates EXCEPT ![c] = found]
             /\ IF failed
                THEN /\ pc' = [pc EXCEPT ![c] = "done"]
                     /\ outcome' = [outcome EXCEPT ![c] = "rejected"]
                     /\ error' = [error EXCEPT ![c] = LookupError(r)]
                     /\ UNCHANGED <<request, transportCalls>>
                ELSE /\ pc' = [pc EXCEPT ![c] = "awaiting"]
                     /\ request' = [request EXCEPT ![c] =
                                       [parameters |-> RequestedParameters(o),
                                        start |-> RequestedRange(o)[1],
                                        end |-> RequestedRange(o)[2]]]
                     /\ transportCalls' = transportCalls + 1
                     /\ UNCHANGED <<outcome, error>>
    /\ UNCHANGED <<transport, transportError, response, weatherData, result>>

\* The transport settles the request of c: makeApiRequest returns the
\* response to getWeatherData, or both catch blocks rethrow the error.
PairSettle(c) ==
    /\ pc[c] = "awaiting"
    /\ \E reply \in PairReplies :
         IF reply.settled = "rejected"
         THEN /\ transportError' = [transportError EXCEPT ![c] = reply.err]
              /\ pc' = [pc EXCEPT ![c] = "done"]
              /\ outcome' = [outcome EXCEPT ![c] = "rejected"]
              /\ error' = [error EXCEPT ![c] =
                              getWeatherDataCatch(makeApiRequestCatch(reply.err))]
              /\ UNCHANGED response
         ELSE /\ response' = [response EXCEPT ![c] = reply.body]
              /\ pc' = [pc EXCEPT ![c] = "responded"]
              /\ UNCHANGED <<transportError, outcome, error>>
    /\ UNCHANGED <<op, region, coordinates, request, transportCalls, transport,
                   weatherData, result>>

\* getWeatherData of c continues after its await: it normalizes the response
\* and returns the records.
PairNormalize(c) ==
    /\ pc[c] = "responded"
    /\ \E r \in {getWeatherDataTry(ResponseOf(c))} :
         /\ weatherData' = [weatherData EXCEPT ![c] = r.result.value]
         /\ IF op[c] \in {"getWeatherData", "getWeatherDataForSpanishRegion"}
            THEN /\ pc' = [pc EXCEPT ![c] = "done"]
                 /\ outcome' = [outcome EXCEPT ![c] = "resolved"]
                 /\ result' = [result EXCEPT ![c] = r.result]
            ELSE /\ pc' = [pc EXCEPT ![c] = "fetched"]
                 /\ UNCHANGED <<outcome, result>>
    /\ UNCHANGED <<op, region, coordinates, request, transportCalls, transport,
                   transportError, response, error>>

\* The operation of c continues after its await of the fetch.
PairComplete(c) ==
    /\ pc[c] = "fetched"
    /\ \E r \in {AfterFetch(op[c], weatherData[c])} :
         /\ outcome' = [outcome EXCEPT ![c] = r.outcome]
         /\ result' = [result EXCEPT ![c] = r.result]
         /\ error' = [error EXCEPT ![c] = r.error]
    /\ pc' = [pc EXCEPT ![c] = "done"]
    /\ UNCHANGED <<op, region, coordinates, request, transportCalls, transport,
                   transportError, response, weatherData>>

NextPair ==
    \E c \in Calls :
        \/ PairCall(c)
        \/ PairSettle(c)
        \/ PairNormalize(c)
        \/ PairComplete(c)

SpecPair == InitPair /\ [][NextPair]_vars

-----------------------------------------------------------------------------
(* The derivations of getAgriculturalData alone: the fetch has resolved    *)
(* with one record, put together field by field, and the operation derives *)
(* its indices and recommendations; and generateRecommendations on a       *)
(* record and indices given to it directly.                                *)

\* The indices given to generateRecommendations, field by field.
SuppliedIrrigationNeeds ==
    {Undetermined, Fraction(0, 1), Fraction(3, 1), Fraction(13, 4), Fraction(7, 2),
     Fraction(12, 1)}
SuppliedDiseaseRisks ==
    {Undetermined, Fraction(0, 1), Fraction(4, 10), Fraction(1, 2), Fraction(7, 10),
     Fraction(1, 1)}
SuppliedPlantingConditions ==
    {Undetermined, [tag |-> "boolean", b |-> TRUE], [tag |-> "boolean", b |-> FALSE]}
SuppliedHarvestConditions ==
    {[tag |-> "category", s |-> "Buenas"], [tag |-> "category", s |-> "Regulares"],
     [tag |-> "category", s |-> "Malas"]}

\* getAgriculturalData after its await of the fetch, which resolved with the
\* record.
Agricultural ==
    /\ pc = "idle"
    /\ weatherData # << >>
    /\ op' = "getAgriculturalData"
    /\ \E r \in {AfterFetch("getAgriculturalData", weatherData)} :
           /\ outcome' = r.outcome
           /\ result' = r.result
           /\ error' = r.error
    /\ pc' = "done"
    /\ UNCHANGED <<region, coordinates, request, transportCalls, transport,
                   transportError, response, weatherData>>

\* generateRecommendations on a record and on indices of any shape.
Recommend ==
    /\ pc = "idle"
    /\ weatherData = << >>
    /\ \E p \in Optional({0, 5, 6}), m \in Optional({10, 40, 90}),
          need \in Optional(SuppliedIrrigationNeeds),
          risk \in Optional(SuppliedDiseaseRisks),
          planting \in Optional(SuppliedPlantingConditions),
          harvest \in Optional(SuppliedHarvestConditions) :
          \E data \in {[date |-> DayKey(1),
                        fields |-> FieldsOf([precipitation |-> p, soilMoisture |-> m])]},
             indices \in {FieldsOf([irrigationNeed |-> need, diseaseRisk |-> risk,
                                    optimalPlantingConditions |-> planting,
                                    harvestConditions |-> harvest])} :
             /\ weatherData' = <<data>>
             /\ request' = [kind |-> "generateRecommendations", indices |-> indices]
             /\ result' = [kind |-> "recommendations",
                           value |-> generateRecommendations(data, indices)]
    /\ op' = "generateRecommendations"
    /\ outcome' = "resolved"
    /\ pc' = "done"
    /\ UNCHANGED <<region, coordinates, transportCalls, transport, transportError,
                   response, error>>

NextAgro ==
    \/ Measure
    \/ Agricultural
    \/ Recommend

SpecAgro == InitIndices /\ [][NextAgro]_vars

-----------------------------------------------------------------------------
(* The claims about the normalizer, checked under SpecNorm.                *)

Normalized == pc = "normalized"

\* Exactly 8 characters, every one a decimal digit.
EightDigits(key) ==
    /\ Len(key) = 8
    /\ \A i \in 1..Len(key) :
          key[i] \in {"0", "1", "2", "3", "4", "5", "6", "7", "8", "9"}

\* The keys that occur in the value object of any parameter of the body.
KeysOf(body) ==
    UNION { {body.parameter[i].entries[j].k : j \in 1..Len(body.parameter[i].entries)}
            : i \in 1..Len(body.parameter) }

DateKeysOf(body) == {key \in KeysOf(body) : EightDigits(key)}

\* The if-statements whose parameter has a value at the date.
WritersAmong(defined) == {n \in 1..Len(FieldMap) : FieldMap[n].code \in defined}
Writers(body, date) == WritersAmong(DefinedCodes(body.parameter, date))

Last(S) == CHOOSE n \in S : \A m \in S : m <= n

\* The field f of the record is present exactly when the if-statements W, the
\* ones that write it, are some, and holds the number the last of them read.
FieldHolds(record, f, W) ==
    /\ (f \in DOMAIN record.fields) <=> (W # {})
    /\ W # {} =>
          \E raw \in {ParameterValue(response.parameter, FieldMap[Last(W)].code,
                                     record.date)} :
              raw.tag = "number" => record.fields[f] = raw.n

RecordHolds(record, writers) ==
    \A f \in {FieldMap[n].field : n \in 1..Len(FieldMap)} :
        FieldHolds(record, f, {n \in writers : FieldMap[n].field = f})

\* C1: the records of every normalized body are in strictly ascending order
\* of their date strings, whatever the order of the keys in the body.
C1_SortedByDate ==
    Normalized =>
        \A i, j \in 1..Len(weatherData) :
            i < j => StrLess(weatherData[i].date, weatherData[j].date)

\* C2: when every parameter of the body is an object and every 8-digit key
\* that occurs in any of them has a parameter the normalizer knows with a
\* value at it, there is exactly one
\* record per such key, each record holds exactly the fields whose parameter
\* has a value at its date, and no record is without a field.
C2_OneRecordPerDate ==
    (/\ Normalized
     /\ \A i \in 1..Len(response.parameter) : response.parameter[i].isObject
     /\ \A d \in DateKeysOf(response) : Writers(response, d) # {}) =>
        /\ Len(weatherData) = Cardinality(DateKeysOf(response))
        /\ {weatherData[i].date : i \in 1..Len(weatherData)} = DateKeysOf(response)
        /\ \A i \in 1..Len(weatherData) :
              /\ DOMAIN weatherData[i].fields # {}
              /\ DOMAIN weatherData[i].fields =
                    {FieldMap[n].field : n \in Writers(response, weatherData[i].date)}

\* C4: no record has a date that is not 8 decimal digits; "units" and
\* "longname" are never the date of a record.
C4_OnlyValidDates ==
    Normalized =>
        \A i \in 1..Len(weatherData) :
            /\ EightDigits(weatherData[i].date)
            /\ weatherData[i].date # units
            /\ weatherData[i].date # longname

\* A body whose first parameter has a key that is no date and a key that is
\* one, normalized to at least one record.
C4_Witness ==
    /\ Normalized
    /\ Len(weatherData) >= 1
    /\ \E key \in KeysOf(response) : ~EightDigits(key) /\ key # units
    /\ units \in KeysOf(response)

BothSoilCodes(body, date) ==
    /\ ParameterDefined(body.parameter, "TSOIL1", date)
    /\ ParameterDefined(body.parameter, "T_SOIL", date)

RawNumber(value) == IF value.tag = "number" THEN value.n ELSE StringToNumber(value.s)

\* C5 as claimed: when TSOIL1 and T_SOIL both have a value at the date of a
\* record, soilTemperature holds the value of TSOIL1, the modern code.
C5_ModernOverwritesLegacy ==
    Normalized =>
        \A i \in 1..Len(weatherData) :
            BothSoilCodes(response, weatherData[i].date) =>
                weatherData[i].fields["soilTemperature"] =
                    RawNumber(ParameterValue(response.parameter, "TSOIL1",
                                             weatherData[i].date))

\* C5 as amended: when TSOIL1 and T_SOIL both have a value at the date of a
\* record, soilTemperature holds the value of T_SOIL, the legacy code, which
\* is read after TSOIL1.
C5_LegacyOverwritesModern ==
    Normalized =>
        \A i \in 1..Len(weatherData) :
            BothSoilCodes(response, weatherData[i].date) =>
                weatherData[i].fields["soilTemperature"] =
                    RawNumber(ParameterValue(response.parameter, "T_SOIL",
                                             weatherData[i].date))

\* A record at a date where the two codes have different values.
C5_Witness ==
    /\ Normalized
    /\ \E i \in 1..Len(weatherData) :
          /\ BothSoilCodes(response, weatherData[i].date)
          /\ RawNumber(ParameterValue(response.parameter, "TSOIL1", weatherData[i].date))
               # RawNumber(ParameterValue(response.parameter, "T_SOIL", weatherData[i].date))

-----------------------------------------------------------------------------
(* The claims about the facade, checked under Spec.                        *)

\* The operations that return the records of the fetch as they are.
FetchOps == {"getWeatherData", "getWeatherDataForSpanishRegion"}

ContainerMissingOrEmpty(body) == body.shape # "ok" \/ Len(body.parameter) = 0

\* C3: when the body the transport resolved with has no properties.parameter
\* container, or the container has no parameter, the normalizer returns the
\* empty sequence and getWeatherData resolves with it.
C3_MissingContainerYieldsEmpty ==
    (transport = "resolved" /\ ContainerMissingOrEmpty(response)) =>
        /\ weatherData = << >>
        /\ error.kind # "TypeError"
        /\ op \in FetchOps =>
              /\ pc = "done"
              /\ outcome = "resolved"
              /\ result = [kind |-> "weatherData", value |-> << >>]

\* getWeatherData has resolved with no record on a body without the container.
C3_Witness ==
    /\ op = "getWeatherData"
    /\ outcome = "resolved"
    /\ response.shape = "noparameter"
    /\ result.kind = "weatherData"
    /\ Len(result.value) = 0

InTable(r) ==
    r \in {"Andalucía", "Aragón", "Asturias", "Islas Baleares", "Islas Canarias",
           "Cantabria", "Castilla-La Mancha", "Castilla y León", "Catalunna",
           "Extremadura", "Galicia", "Madrid", "Murcia", "Navarra", "País Vasco",
           "La Rioja", "Comunidad Valenciana", "Ceuta", "Melilla"}

\* C7: an operation called with a region that is not in the coordinate table
\* never invokes the transport and ends rejected with an error that names the
\* region.
C7_UnknownRegionFailsBeforeRequest ==
    (op \in Ops \ {"getWeatherData"} /\ ~InTable(region)) =>
        /\ transportCalls = 0
        /\ pc = "done" =>
              /\ outcome = "rejected"
              /\ error.kind = "Error"
              /\ \E i \in 1..Len(error.detail) : error.detail[i] = region

\* C8: when the transport call fails, the operation ends rejected with the
\* error the transport raised, and with no result.
C8_TransportErrorPropagates ==
    transport = "rejected" =>
        /\ pc = "done"
        /\ outcome = "rejected"
        /\ error = transportError
        /\ result = NoResult

\* An advisory operation rejected with the transport's error.
C8_Witness ==
    /\ transport = "rejected"
    /\ op = "shouldIrrigate"
    /\ outcome = "rejected"
    /\ error \in TransportErrors

\* C9: an invocation calls the transport at most once.
C9_AtMostOneRequest == transportCalls <= 1

\* An invocation that failed at the transport and ended after its one call.
C9_Witness ==
    /\ pc = "done"
    /\ transport = "rejected"
    /\ transportCalls = 1

\* C10: when the fetch yields no record, isRaining, shouldIrrigate,
\* checkFrostRisk and checkPlantingConditions end rejected with an error and
\* with no result.
C10_NoRecordsRaises ==
    (pc = "done" /\ op \in AdvisoryOps /\ transport = "resolved" /\ Len(weatherData) = 0) =>
        /\ outcome = "rejected"
        /\ error = NoDataError
        /\ result = NoResult

\* checkFrostRisk rejected on a body whose parameters hold no day.
C10_Witness ==
    /\ pc = "done"
    /\ op = "checkFrostRisk"
    /\ transport = "resolved"
    /\ response.shape = "ok"
    /\ Len(response.parameter) > 0
    /\ Len(weatherData) = 0
    /\ outcome = "rejected"

-----------------------------------------------------------------------------
(* The claims about the advisory operations, checked under SpecAdvice.     *)

Advised(o) == pc = "done" /\ op = o /\ weatherData # << >>

\* The field f of the record holds the fill value.
IsFill(record, f) == f \in DOMAIN record.fields /\ record.fields[f] = FILL

MinTemperatureUnknown(record) ==
    \/ "minTemperature" \notin DOMAIN record.fields
    \/ record.fields["minTemperature"] = FILL
    \/ record.fields["minTemperature"] = 0

LeastOf(S) == CHOOSE m \in S : \A n \in S : m <= n

\* C12: checkFrostRisk answers 'no definido' when the minimum temperature of
\* any record is -999, 0 or missing; otherwise 'alto' when the lowest minimum
\* temperature is at most 0, 'medio' when it is at most 3, 'bajo' otherwise;
\* a tier is never computed from a fill value.
C12_FrostTierFromLowest ==
    Advised("checkFrostRisk") =>
        /\ outcome = "resolved"
        /\ result.kind = "checkFrostRisk"
        /\ IF \E i \in 1..Len(weatherData) : MinTemperatureUnknown(weatherData[i])
           THEN result.riskLevel = "no definido"
           ELSE LET lowest == LeastOf({weatherData[i].fields["minTemperature"] :
                                         i \in 1..Len(weatherData)})
                IN  result.riskLevel = IF lowest <= 0 THEN "alto"
                                       ELSE IF lowest <= 3 THEN "medio"
                                       ELSE "bajo"
        /\ result.riskLevel # "no definido" =>
               \A i \in 1..Len(weatherData) : ~IsFill(weatherData[i], "minTemperature")

\* A high risk told from the second of two records.
C12_Witness ==
    /\ Advised("checkFrostRisk")
    /\ Len(weatherData) = 2
    /\ ~MinTemperatureUnknown(weatherData[1])
    /\ weatherData[1].fields["minTemperature"] = 6
    /\ result.riskLevel = "alto"

\* The field f of the record is missing or 0.
MissingOrZero(record, f) == f \notin DOMAIN record.fields \/ record.fields[f] = 0

\* The precipitation of the record, none when the record has no precipitation.
PrecipitationOf(record) ==
    IF "precipitation" \in DOMAIN record.fields THEN record.fields["precipitation"] ELSE 0

\* The sentences of the sub-conditions that fail, in the order of the message.
FailingSentences(today, rainTomorrow) ==
    (IF today.fields["soilMoisture"] < 30 THEN <<" Suelo demasiado seco.">> ELSE << >>)
    \o (IF today.fields["soilMoisture"] > 70 THEN <<" Suelo demasiado húmedo.">> ELSE << >>)
    \o (IF today.fields["soilTemperature"] < 10
        THEN <<" Temperatura del suelo demasiado baja.">> ELSE << >>)
    \o (IF PrecipitationOf(today) >= 5 THEN <<" Lluvia reciente.">> ELSE << >>)
    \o (IF rainTomorrow THEN <<" Lluvia prevista para mañana.">> ELSE << >>)

\* C13: checkPlantingConditions answers 'no definido' when today's
\* soilMoisture, soilTemperature or precipitation is -999, when today's
\* soilMoisture or soilTemperature is 0 or missing, or when tomorrow's
\* precipitation is -999; otherwise it answers true exactly when
\* 30 <= soilMoisture <= 70, soilTemperature >= 10, today's precipitation < 5
\* and tomorrow's precipitation <= 1, and a false answer names the
\* sub-conditions that fail, all of them and no other, and at least one.
C13_PlantingConditions ==
    Advised("checkPlantingConditions") =>
        /\ outcome = "resolved"
        /\ result.kind = "checkPlantingConditions"
        /\ LET today == weatherData[1]
               hasTomorrow == Len(weatherData) > 1
           IN  IF \/ IsFill(today, "soilMoisture") \/ IsFill(today, "soilTemperature")
                  \/ IsFill(today, "precipitation")
                  \/ MissingOrZero(today, "soilMoisture")
                  \/ MissingOrZero(today, "soilTemperature")
                  \/ (hasTomorrow /\ IsFill(weatherData[2], "precipitation"))
               THEN result.isOptimal = "no definido"
               ELSE LET rainTomorrow ==
                            hasTomorrow /\ PrecipitationOf(weatherData[2]) > 1
                        failing == FailingSentences(today, rainTomorrow)
                    IN  /\ result.isOptimal = IF failing = << >> THEN "true" ELSE "false"
                        /\ (result.isOptimal = "true") <=>
                              /\ today.fields["soilMoisture"] >= 30
                              /\ today.fields["soilMoisture"] <= 70
                              /\ today.fields["soilTemperature"] >= 10
                              /\ PrecipitationOf(today) < 5
                              /\ ~rainTomorrow
                        /\ result.isOptimal = "false" =>
                              /\ Tail(result.message) = failing
                              /\ Len(result.message) >= 2

\* A false answer that names a wet soil and the rain of tomorrow, and nothing
\* else: today's rain of 2 is below 5, tomorrow's rain of 2 is above 1.
C13_Witness ==
    /\ Advised("checkPlantingConditions")
    /\ Len(weatherData) = 2
    /\ result.isOptimal = "false"
    /\ PrecipitationOf(weatherData[1]) = 2
    /\ PrecipitationOf(weatherData[2]) = 2
    /\ Tail(result.message) = <<" Suelo demasiado húmedo.", " Lluvia prevista para mañana.">>

-----------------------------------------------------------------------------
(* The claims about getAgriculturalData, checked under Spec.               *)

AgriculturalDataFetched == pc = "done" /\ op = "getAgriculturalData" /\ transport = "resolved"

\* C14: getAgriculturalData resolves with the records of the fetch and with
\* indices and recommendations of the same length; indices[i] are the indices
\* of weatherData[i], recommendations[i] the recommendations for weatherData[i]
\* and indices[i]; every indices[i] has droughtIndex set, to a number or to
\* 'no definido'; with no record the three sequences are empty and nothing is
\* raised.
C14_AgriculturalDataAligned ==
    AgriculturalDataFetched =>
        /\ outcome = "resolved"
        /\ error = NoError
        /\ result.kind = "getAgriculturalData"
        /\ result.weatherData = weatherData
        /\ Len(result.indices) = Len(weatherData)
        /\ Len(result.recommendations) = Len(weatherData)
        /\ \A i \in 1..Len(weatherData) :
              /\ result.indices[i] = calculateAgroClimateIndices(weatherData[i])
              /\ result.recommendations[i] =
                    generateRecommendations(weatherData[i], result.indices[i])
              /\ "droughtIndex" \in DOMAIN result.indices[i]
              /\ result.indices[i]["droughtIndex"].tag \in {"number", "no definido"}
        /\ weatherData = << >> =>
              /\ result.weatherData = << >>
              /\ result.indices = << >>
              /\ result.recommendations = << >>

\* getAgriculturalData resolved with two records whose indices differ: the
\* first day's droughtIndex is a number, the second day's is 'no definido'.
C14_Witness ==
    /\ AgriculturalDataFetched
    /\ outcome = "resolved"
    /\ Len(result.weatherData) = 2
    /\ Len(result.indices) = 2
    /\ Len(result.recommendations) = 2
    /\ result.indices[1]["droughtIndex"].tag = "number"
    /\ result.indices[2]["droughtIndex"].tag = "no definido"

-----------------------------------------------------------------------------
(* The claims about calculateAgroClimateIndices, checked under SpecIndices. *)

Derived == pc = "done" /\ op = "calculateAgroClimateIndices"

\* The field f of the record is undefined or holds the fill value.
MissingOrFill(record, f) == f \notin DOMAIN record.fields \/ record.fields[f] = FILL

\* The record gives no drought index: evapotranspiration is undefined, -999 or
\* 0, or precipitation is undefined or -999.
NoDroughtIndex(record) ==
    \/ MissingOrFill(record, "evapotranspiration")
    \/ record.fields["evapotranspiration"] = 0
    \/ MissingOrFill(record, "precipitation")

\* v is max(0, 1 - p / e), for e # 0.
IsFlooredDeficit(v, p, e) ==
    /\ v.tag = "number"
    /\ v.den > 0
    /\ IF (e - p) * e > 0 THEN v.num * e = (e - p) * v.den ELSE v.num = 0

\* C15: droughtIndex is 'no definido' exactly when evapotranspiration is
\* undefined, -999 or 0, or precipitation is undefined or -999; in every other
\* case it is max(0, 1 - precipitation / evapotranspiration).
C15_DroughtIndex ==
    Derived =>
        /\ "droughtIndex" \in DOMAIN result.value
        /\ (result.value["droughtIndex"].tag = "no definido") <=> NoDroughtIndex(weatherData[1])
        /\ ~NoDroughtIndex(weatherData[1]) =>
              IsFlooredDeficit(result.value["droughtIndex"],
                               weatherData[1].fields["precipitation"],
                               weatherData[1].fields["evapotranspiration"])

\* A record with precipitation 2 and evapotranspiration 4 got the index 1/2.
C15_Witness ==
    /\ Derived
    /\ ~NoDroughtIndex(weatherData[1])
    /\ weatherData[1].fields["precipitation"] = 2
    /\ weatherData[1].fields["evapotranspiration"] = 4
    /\ result.value["droughtIndex"].num * 2 = result.value["droughtIndex"].den

\* 0 <= v <= top, for a field of the indices that is a number.
InRange(indices, f, top) ==
    (f \in DOMAIN indices /\ indices[f].tag = "number") =>
        /\ indices[f].num >= 0
        /\ indices[f].num <= top * indices[f].den

\* C16: every index that is a number lies in its range: droughtIndex in
\* [0,1], heatStressIndex in [0,10], freezeRisk in [0,1], diseaseRisk in [0,1]
\* and irrigationNeed >= 0, whatever the record holds.
C16_IndicesInRange ==
    Derived =>
        /\ InRange(result.value, "droughtIndex", 1)
        /\ InRange(result.value, "heatStressIndex", 10)
        /\ InRange(result.value, "freezeRisk", 1)
        /\ InRange(result.value, "diseaseRisk", 1)
        /\ "irrigationNeed" \in DOMAIN result.value => result.value["irrigationNeed"].num >= 0

\* The measurements each field of the indices is derived from.
RequiredInputs(f) ==
    CASE f = "droughtIndex" -> {"precipitation", "evapotranspiration"}
      [] f = "heatStressIndex" -> {"maxTemperature", "humidity"}
      [] f = "freezeRisk" -> {"minTemperature"}
      [] f = "diseaseRisk" -> {"humidity", "temperature"}
      [] f = "irrigationNeed" -> {"evapotranspiration", "precipitation", "soilMoisture"}
      [] f = "optimalPlantingConditions" -> {"soilTemperature", "soilMoisture"}
      [] f = "harvestConditions" -> {"precipitation", "humidity"}

SevenFields ==
    {"droughtIndex", "heatStressIndex", "freezeRisk", "diseaseRisk", "irrigationNeed",
     "optimalPlantingConditions", "harvestConditions"}

\* C17: each of the seven fields of the indices is set, to a computed value
\* or to 'no definido', and it is 'no definido' when one of the measurements
\* it is derived from is undefined or -999.
C17_EveryFieldSetOrMarked ==
    Derived =>
        \A f \in SevenFields :
            /\ f \in DOMAIN result.value
            /\ (\E g \in RequiredInputs(f) : MissingOrFill(weatherData[1], g)) =>
                  result.value[f].tag = "no definido"

-----------------------------------------------------------------------------
(* The claims about the exported helpers, checked under SpecTools.         *)

Called(helper) == pc = "done" /\ op = helper

\* 5 - (precipitation - evapotranspiration) - soilMoisture / 20, in hundredths,
\* for arguments in tenths of a millimetre and percent.
RawStress(args) ==
    500 - 10 * (args.precipitation - args.evapotranspiration) - 5 * args.soilMoisture

\* C18: calculateWaterStressIndex returns the stress index
\* min(10, max(0, 5 - (precipitation - evapotranspiration) - soilMoisture / 20)),
\* always within [0,10], with the status 'óptimo' below 3, 'leve' below 5,
\* 'moderado' below 7.5 and 'severo' otherwise; for (2.5, 4.8, 35) the index
\* is 5.55 and the status 'moderado'.
C18_WaterStress ==
    Called("calculateWaterStressIndex") =>
        /\ result.stressIndex =
              (IF RawStress(request) < 0 THEN 0
               ELSE IF RawStress(request) > 1000 THEN 1000
               ELSE RawStress(request))
        /\ result.stressIndex >= 0
        /\ result.stressIndex <= 1000
        /\ result.stressIndex < 300 => result.status = "óptimo"
        /\ (result.stressIndex >= 300 /\ result.stressIndex < 500) => result.status = "leve"
        /\ (result.stressIndex >= 500 /\ result.stressIndex < 750) => result.status = "moderado"
        /\ result.stressIndex >= 750 => result.status = "severo"
        /\ (/\ request.precipitation = 25
            /\ request.evapotranspiration = 48
            /\ request.soilMoisture = 35) =>
              (result.stressIndex = 555 /\ result.status = "moderado")

\* The call of the example, (2.5, 4.8, 35), returned 5.55 and 'moderado'.
C18_Witness ==
    /\ Called("calculateWaterStressIndex")
    /\ request.precipitation = 25
    /\ request.evapotranspiration = 48
    /\ request.soilMoisture = 35
    /\ result.stressIndex = 555
    /\ result.status = "moderado"

\* The sum of the field f over the first n records, a missing value counted as 0.
RECURSIVE TotalUpTo(_, _, _)
TotalUpTo(data, f, n) ==
    IF n = 0 THEN 0
    ELSE TotalUpTo(data, f, n - 1)
         + (IF f \in DOMAIN data[n].fields THEN data[n].fields[f] ELSE 0)

Total(f) == TotalUpTo(weatherData, f, Len(weatherData))

Listed(seq, x) == \E i \in 1..Len(seq) : seq[i] = x

CerealEstimated ==
    /\ Called("estimateCropPotential")
    /\ request.cropType = "cereal"
    /\ weatherData # << >>

\* C19: for 'cereal' and a non-empty sequence, the insufficient-precipitation
\* factor is listed iff the summed precipitation is below 200 and the
\* temperature factor iff the mean temperature is below 8 or above 22, missing
\* values counted as 0; the potential is 'alto' with no limiting factor and
\* 'medio' with one or two; a total rain of 17 with a mean temperature of 12.2
\* gives exactly one limiting factor and 'medio'.
C19_CerealPotential ==
    CerealEstimated =>
        /\ Listed(result.limitingFactors, "Precipitación insuficiente para cereales")
              <=> Total("precipitation") < 200
        /\ Listed(result.limitingFactors,
                  "Temperatura media fuera del rango óptimo para cereales")
              <=> (\/ Total("temperature") < 8 * Len(weatherData)
                   \/ Total("temperature") > 22 * Len(weatherData))
        /\ Len(result.limitingFactors) = 0 => result.potentialYield = "alto"
        /\ Len(result.limitingFactors) \in {1, 2} => result.potentialYield = "medio"
        /\ (Total("precipitation") = 17
            /\ 10 * Total("temperature") = 122 * Len(weatherData)) =>
              (Len(result.limitingFactors) = 1 /\ result.potentialYield = "medio")

\* The five days of the example, with a total rain of 17 and a mean
\* temperature of 12.2, gave the precipitation factor alone and 'medio'.
C19_Witness ==
    /\ CerealEstimated
    /\ Len(weatherData) = 5
    /\ Total("precipitation") = 17
    /\ Total("temperature") = 61
    /\ result.limitingFactors = <<"Precipitación insuficiente para cereales">>
    /\ result.potentialYield = "medio"

\* 30 <= soilMoisture <= 70, soilTemperature >= 10 and precipitation undefined
\* or below 5.
GoodForPlanting(day) ==
    /\ "soilMoisture" \in DOMAIN day.fields
    /\ day.fields["soilMoisture"] >= 30
    /\ day.fields["soilMoisture"] <= 70
    /\ "soilTemperature" \in DOMAIN day.fields
    /\ day.fields["soilTemperature"] >= 10
    /\ ("precipitation" \in DOMAIN day.fields => day.fields["precipitation"] < 5)

\* C20: generateAgriculturalCalendar lists 'Siembra/trasplante' as recommended
\* and not as not recommended for every day with 30 <= soilMoisture <= 70,
\* soilTemperature >= 10 and precipitation undefined or below 5, and lists it
\* as not recommended for every other day.
C20_PlantingInCalendar ==
    Called("generateAgriculturalCalendar") =>
        /\ Len(result.nextDays) = Len(weatherData)
        /\ \A i \in 1..Len(weatherData) :
              IF GoodForPlanting(weatherData[i])
              THEN /\ Listed(result.nextDays[i].recommendedActivities, "Siembra/trasplante")
                   /\ ~Listed(result.nextDays[i].notRecommendedActivities, "Siembra/trasplante")
              ELSE Listed(result.nextDays[i].notRecommendedActivities, "Siembra/trasplante")

\* A day with soilMoisture 40, soilTemperature 12 and precipitation 0 got
\* 'Siembra/trasplante' among its recommended activities.
C20_Witness ==
    /\ Called("generateAgriculturalCalendar")
    /\ Len(weatherData) = 1
    /\ GoodForPlanting(weatherData[1])
    /\ weatherData[1].fields["soilMoisture"] = 40
    /\ weatherData[1].fields["soilTemperature"] = 12
    /\ "precipitation" \in DOMAIN weatherData[1].fields
    /\ weatherData[1].fields["precipitation"] = 0
    /\ Listed(result.nextDays[1].recommendedActivities, "Siembra/trasplante")
    /\ ~Listed(result.nextDays[1].notRecommendedActivities, "Siembra/trasplante")

-----------------------------------------------------------------------------
(* The claim about two invocations on one client, checked under SpecPair.  *)

\* The outcome of the operation o for the region r run alone, when the
\* transport settles its request with the error err or, if err is none, with
\* the body.
Alone(o, r, err, body) ==
    IF o # "getWeatherData" /\ CoordinatesMissing(LookupRegion(r))
    THEN Throw(LookupError(r))
    ELSE IF err # NoError
    THEN Throw(err)
    ELSE IF o \in FetchOps
    THEN getWeatherDataTry(body)
    ELSE AfterFetch(o, getWeatherDataTry(body).result.value)

\* Nothing of the invocation c has been written.
Untouched(c) ==
    /\ op[c] = "" /\ region[c] = "" /\ coordinates[c] = NoCoordinates
    /\ request[c] = NoRequest /\ transportError[c] = NoError
    /\ response[c] = EmptyBody /\ weatherData[c] = << >>
    /\ outcome[c] = "none" /\ result[c] = NoResult /\ error[c] = NoError

\* C21: of two invocations whose steps interleave at the awaits, each ends
\* with the outcome it has when run alone on its own response; an invocation
\* that has not started has had nothing written by the other; and the
\* configuration the constructor set is never modified.
C21_InvocationsIndependent ==
    /\ transport = ClientConfig
    /\ \A c \in Calls :
          /\ pc[c] = "idle" => Untouched(c)
          /\ pc[c] = "done" =>
                [outcome |-> outcome[c], result |-> result[c], error |-> error[c]]
                    = Alone(op[c], region[c], transportError[c], response[c])

\* The second invocation has resolved an isRaining on its own response while
\* the first, a checkFrostRisk with a different response, stands between two
\* of its awaits.
C21_Witness ==
    /\ pc[1] = "fetched"
    /\ op[1] = "checkFrostRisk"
    /\ pc[2] = "done"
    /\ op[2] = "isRaining"
    /\ outcome[2] = "resolved"
    /\ result[2].value = TRUE
    /\ response[1] # response[2]
    /\ transportCalls = 2

-----------------------------------------------------------------------------
(* The claims about the indices and recommendations of a record.           *)

AgriculturalDerived ==
    pc = "done" /\ op = "getAgriculturalData" /\ outcome = "resolved"

\* One of the measurements irrigationNeed is computed from holds the fill value.
IrrigationInputFill(record) ==
    \E f \in {"evapotranspiration", "precipitation", "soilMoisture"} : IsFill(record, f)

\* C22: in getAgriculturalData, a record whose evapotranspiration,
\* precipitation or soilMoisture is -999 gets no numeric irrigationNeed and
\* no irrigation recommendation with recommended = true.
C22_FillCaughtBeforeIrrigation ==
    AgriculturalDerived =>
        \A i \in 1..Len(weatherData) :
            IrrigationInputFill(weatherData[i]) =>
                /\ ~("irrigationNeed" \in DOMAIN result.indices[i]
                     /\ result.indices[i]["irrigationNeed"].tag = "number")
                /\ ~result.recommendations[i].irrigation.recommended

\* v is the number n / d, d > 0.
IsNumberEqual(v, n, d) == v.tag = "number" /\ v.den > 0 /\ v.num * d = n * v.den

\* C23: freezeRisk is 'no definido' iff minTemperature is undefined or -999;
\* otherwise it is 1 when minTemperature <= 0, (3 - minTemperature) / 3 when
\* 0 < minTemperature < 3 and 0 when minTemperature >= 3.
C23_FreezeRisk ==
    Derived =>
        /\ "freezeRisk" \in DOMAIN result.value
        /\ (result.value["freezeRisk"].tag = "no definido")
              <=> MissingOrFill(weatherData[1], "minTemperature")
        /\ ~MissingOrFill(weatherData[1], "minTemperature") =>
              LET t == weatherData[1].fields["minTemperature"]
              IN  /\ t <= 0 => IsNumberEqual(result.value["freezeRisk"], 1, 1)
                  /\ (t > 0 /\ t < 3) => IsNumberEqual(result.value["freezeRisk"], 3 - t, 3)
                  /\ t >= 3 => IsNumberEqual(result.value["freezeRisk"], 0, 1)

\* A record with a minTemperature of -2 got the freeze risk 1.
C23_Witness ==
    /\ Derived
    /\ "minTemperature" \in DOMAIN weatherData[1].fields
    /\ weatherData[1].fields["minTemperature"] = 0 - 2
    /\ IsNumberEqual(result.value["freezeRisk"], 1, 1)

-----------------------------------------------------------------------------
(* The claims about generateRecommendations, checked under SpecAgro.       *)

RecommendationsGiven == pc = "done" /\ op = "generateRecommendations"

\* The pairs of indices and recommendations of the state: the ones given to
\* and returned by generateRecommendations, or the ones getAgriculturalData
\* derived for each record.
Pairs ==
    IF RecommendationsGiven
    THEN {[indices |-> request.indices, recommendations |-> result.value]}
    ELSE IF AgriculturalDerived
    THEN {[indices |-> result.indices[i], recommendations |-> result.recommendations[i]] :
             i \in 1..Len(weatherData)}
    ELSE {}

\* indices.f is a number above n.
NumericAbove(indices, f, n) ==
    /\ f \in DOMAIN indices
    /\ indices[f].tag = "number"
    /\ indices[f].num > n * indices[f].den

\* a is v rounded to the nearest integer, a half rounded up.
IsRounded(a, v) ==
    /\ 2 * a * v.den - v.den <= 2 * v.num
    /\ 2 * v.num < 2 * a * v.den + v.den

\* C24: irrigation.recommended is true iff indices.irrigationNeed is a number
\* above 3, and irrigation.amount is then that number rounded to the nearest
\* integer; the message is one of three, for needed, for 'no definido' and
\* for not needed.
C24_IrrigationRecommendation ==
    \A pair \in Pairs :
        LET indices == pair.indices
            irrigation == pair.recommendations.irrigation
        IN  /\ irrigation.recommended <=> NumericAbove(indices, "irrigationNeed", 3)
            /\ irrigation.recommended =>
                  /\ IsRounded(irrigation.amount, indices["irrigationNeed"])
                  /\ irrigation.message =
                        "Se recomienda regar con aproximadamente ${amount} mm de agua."
            /\ ("irrigationNeed" \in DOMAIN indices
                /\ indices["irrigationNeed"].tag = "no definido") =>
                  irrigation.message =
                      "No hay datos suficientes para determinar la necesidad de riego."
            /\ (~irrigation.recommended
                /\ ~("irrigationNeed" \in DOMAIN indices
                     /\ indices["irrigationNeed"].tag = "no definido")) =>
                  irrigation.message = "No es necesario regar hoy."

\* generateRecommendations got an irrigationNeed of 3.5 and recommended 4 mm.
C24_Witness ==
    /\ RecommendationsGiven
    /\ "irrigationNeed" \in DOMAIN request.indices
    /\ request.indices["irrigationNeed"] = Fraction(7, 2)
    /\ result.value.irrigation.recommended
    /\ result.value.irrigation.amount = 4

\* The category the claim gives a record whose precipitation and humidity
\* are defined.
StatedHarvestCategory(record) ==
    LET p == record.fields["precipitation"]
        h == record.fields["humidity"]
        buenas == p < 1 /\ h < 70
    IN  IF buenas THEN "Buenas"
        ELSE IF p < 5 /\ h < 85 THEN "Regulares"
        ELSE "Malas"

\* C25: when precipitation and humidity are both defined, harvestConditions
\* is 'Buenas' iff precipitation < 1 and humidity < 70, 'Regulares' iff not
\* 'Buenas' and precipitation < 5 and humidity < 85, and 'Malas' otherwise;
\* harvesting.recommended is true iff harvestConditions is 'Buenas', and the
\* harvesting message holds the name of the category.
C25_HarvestConditions ==
    /\ AgriculturalDerived =>
          \A i \in 1..Len(weatherData) :
              ({"precipitation", "humidity"} \subseteq DOMAIN weatherData[i].fields) =>
                  /\ "harvestConditions" \in DOMAIN result.indices[i]
                  /\ result.indices[i]["harvestConditions"].s
                        = StatedHarvestCategory(weatherData[i])
    /\ \A pair \in Pairs :
          /\ pair.recommendations.harvesting.recommended
                <=> (/\ "harvestConditions" \in DOMAIN pair.indices
                     /\ pair.indices["harvestConditions"].s = "Buenas")
          /\ "harvestConditions" \in DOMAIN pair.indices =>
                pair.recommendations.harvesting.category
                    = pair.indices["harvestConditions"].s

\* A record with precipitation 2 and humidity 82 got 'Regulares', and
\* harvesting is not recommended.
C25_Witness ==
    /\ AgriculturalDerived
    /\ {"precipitation", "humidity"} \subseteq DOMAIN weatherData[1].fields
    /\ weatherData[1].fields["precipitation"] = 2
    /\ weatherData[1].fields["humidity"] = 82
    /\ result.indices[1]["harvestConditions"].s = "Regulares"
    /\ ~result.recommendations[1].harvesting.recommended
    /\ result.recommendations[1].harvesting.category = "Regulares"

-----------------------------------------------------------------------------
(* The claim about the parameters the advisory operations request, checked *)
(* under Spec.                                                             *)

\* The normalizer sets the field f from the parameter code.
Populates(code, f) ==
    \E j \in 1..Len(FieldMap) : FieldMap[j].code = code /\ FieldMap[j].field = f

\* C26: every field an advisory operation reads to decide its result is set
\* by the normalizer from a parameter code the operation requests.
C26_ReadFieldsAreRequested ==
    (op \in AdvisoryOps /\ pc = "awaiting") =>
        \A f \in FieldsRead(op) :
            \E i \in 1..Len(request.parameters) : Populates(request.parameters[i], f)

-----------------------------------------------------------------------------
(* Further claims about the exported helpers, checked under SpecTools.     *)

\* C27: estimateCropPotential never returns 'bajo': for every crop type and
\* every sequence there are at most 2 limiting factors and the potential is
\* 'alto' or 'medio'; for the empty sequence it is 'medio' with exactly one
\* limiting factor.
C27_NeverLowPotential ==
    Called("estimateCropPotential") =>
        /\ result.potentialYield \in {"alto", "medio"}
        /\ Len(result.limitingFactors) <= 2
        /\ weatherData = << >> =>
              (result.potentialYield = "medio" /\ Len(result.limitingFactors) = 1)

\* A season of 31 hot days gave fruit trees both of their limiting factors,
\* and the potential 'medio'.
C27_Witness ==
    /\ Called("estimateCropPotential")
    /\ request.cropType = "frutal"
    /\ Len(weatherData) = 31
    /\ result.limitingFactors = <<"Riesgo de daño por heladas en frutales",
                                  "Posible insuficiencia de horas-frío para frutales">>
    /\ result.potentialYield = "medio"

-----------------------------------------------------------------------------
(* shouldIrrigate on the record of one day whose measurements are not whole *)
(* numbers: the values of the response are JSON numbers.                    *)

\* The measurements are counted in 1/Resolution.
Resolution == 2

IrrigationPrecipitations ==
    {FILL * Resolution, 0, 5 * Resolution, 5 * Resolution + 1}
IrrigationSoilMoistures ==
    {FILL * Resolution, -1, 0, 1, 29 * Resolution - 1, 29 * Resolution,
     30 * Resolution - 1, 30 * Resolution, 40 * Resolution}
IrrigationEvapotranspirations ==
    {FILL * Resolution, 4 * Resolution, 4 * Resolution + 1, 6 * Resolution}

\* The fetch of shouldIrrigate resolves with the record of one day.
FetchIrrigationDay ==
    /\ pc = "idle"
    /\ \E p \in Optional(IrrigationPrecipitations),
          m \in Optional(IrrigationSoilMoistures),
          e \in Optional(IrrigationEvapotranspirations) :
          weatherData' =
              <<[date |-> DayKey(1),
                 fields |-> FieldsOf([precipitation |-> p, soilMoisture |-> m,
                                      evapotranspiration |-> e])]>>
    /\ op' = "shouldIrrigate"
    /\ pc' = "fetching"
    /\ UNCHANGED <<region, coordinates, request, transportCalls, transport,
                   transportError, response, outcome, result, error>>

\* shouldIrrigate interprets the record.
Irrigate ==
    /\ pc = "fetching"
    /\ \E r \in {shouldIrrigateIn(weatherData, Resolution)} :
           /\ outcome' = r.outcome
           /\ result' = r.result
           /\ error' = r.error
    /\ pc' = "done"
    /\ UNCHANGED <<op, region, coordinates, request, transportCalls, transport,
                   transportError, response, weatherData>>

NextIrrigate ==
    \/ FetchIrrigationDay
    \/ Irrigate

SpecIrrigate == InitIndices /\ [][NextIrrigate]_vars

-----------------------------------------------------------------------------
(* The claim about the amount shouldIrrigate recommends, checked under     *)
(* SpecIrrigate.                                                            *)

Irrigated == pc = "done" /\ op = "shouldIrrigate" /\ outcome = "resolved"

\* C28: whenever shouldIrrigate returns shouldIrrigate = true,
\* recommendedAmount is present and at least 1 mm, and for a soil moisture in
\* [0, 30) it lies in 1..15; whenever it returns false or 'no definido',
\* recommendedAmount is absent.
C28_AmountAtLeastOne ==
    Irrigated =>
        LET today == Today(weatherData)
            soilMoisture == OrZero(today, "soilMoisture")
        IN  /\ result.shouldIrrigate = "true" =>
                  /\ Len(result.recommendedAmount) = 1
                  /\ result.recommendedAmount[1] >= 1
                  /\ (0 <= soilMoisture /\ soilMoisture < 30 * Resolution) =>
                         result.recommendedAmount[1] \in 1..15
            /\ result.shouldIrrigate # "true" => result.recommendedAmount = << >>

-----------------------------------------------------------------------------
(* The claim about the amounts and levels of the recommendations, checked  *)
(* under SpecAgro.                                                          *)

\* C29: in every result of generateRecommendations, irrigation.recommended =
\* false implies irrigation.amount = 0 and irrigation.recommended = true
\* implies irrigation.amount >= 3; pestControl.recommended is true iff
\* pestControl.riskLevel is 'medio' or 'alto'.
C29_AmountsAndLevels ==
    \A pair \in Pairs :
        LET irrigation == pair.recommendations.irrigation
            pestControl == pair.recommendations.pestControl
        IN  /\ ~irrigation.recommended => irrigation.amount = 0
            /\ irrigation.recommended => irrigation.amount >= 3
            /\ pestControl.recommended <=> pestControl.riskLevel \in {"medio", "alto"}

\* An irrigation need of 3.25 gave the amount 3, and a disease risk between
\* 0.4 and 0.7 the level 'medio', both recommended.
C29_Witness ==
    /\ RecommendationsGiven
    /\ "irrigationNeed" \in DOMAIN request.indices
    /\ request.indices["irrigationNeed"] = Fraction(13, 4)
    /\ result.value.irrigation.recommended
    /\ result.value.irrigation.amount = 3
    /\ result.value.pestControl.recommended
    /\ result.value.pestControl.riskLevel = "medio"

-----------------------------------------------------------------------------
(* The claim about the entries of the calendar, checked under SpecTools.   *)

\* The number of times a is in the list.
Times(a, list) == Cardinality({i \in 1..Len(list) : list[i] = a})

DecidedActivities ==
    {"Siembra/trasplante", "Aplicación de tratamientos fitosanitarios", "Cosecha"}

\* C30: generateAgriculturalCalendar returns one entry per day, in the order
\* of the days and with the date of each; in every entry each of
\* 'Siembra/trasplante', 'Aplicación de tratamientos fitosanitarios' and
\* 'Cosecha' is in exactly one of recommendedActivities and
\* notRecommendedActivities, 'Riego' is in at most one of them, and no
\* activity is in both.
C30_CalendarEntries ==
    Called("generateAgriculturalCalendar") =>
        /\ Len(result.nextDays) = Len(weatherData)
        /\ \A i \in 1..Len(weatherData) :
              LET entry == result.nextDays[i]
                  yes == entry.recommendedActivities
                  no == entry.notRecommendedActivities
              IN  /\ entry.date = weatherData[i].date
                  /\ \A a \in DecidedActivities : Times(a, yes) + Times(a, no) = 1
                  /\ Times("Riego", yes) + Times("Riego", no) <= 1
                  /\ \A j \in 1..Len(yes) : Times(yes[j], no) = 0

\* The calendar of the five days of the example: everything is recommended
\* on the first day and nothing on the rainy fourth, in that order.
C30_Witness ==
    /\ Called("generateAgriculturalCalendar")
    /\ weatherData = pronosticoSimulado
    /\ result.nextDays[1].date = <<"2", "0", "2", "3", "0", "2", "0", "1">>
    /\ result.nextDays[1].recommendedActivities =
          <<"Siembra/trasplante", "Aplicación de tratamientos fitosanitarios", "Cosecha">>
    /\ result.nextDays[1].notRecommendedActivities = << >>
    /\ result.nextDays[4].date = <<"2", "0", "2", "3", "0", "2", "0", "4">>
    /\ result.nextDays[4].recommendedActivities = << >>
    /\ result.nextDays[4].notRecommendedActivities =
          <<"Siembra/trasplante", "Aplicación de tratamientos fitosanitarios", "Cosecha">>

====
